---- MODULE Spec2Model ----
(***************************************************************************)
(* Verification model of drs_bot: a Telegram bot that manages academic     *)
(* sections, student enrolment approval and assignment notifications.      *)
(*                                                                         *)
(* The store is the SQLite schema of create_database.py, reduced to the    *)
(* tables the flows use: users, sections, student_sections, assignments    *)
(* and assignment_notifications.  The conversation sessions are telebot's  *)
(* StateMemoryStorage, one entry per (user, chat); in a private chat the   *)
(* chat id equals the user id, so a session is keyed by the telegram id.   *)
(*                                                                         *)
(* Strings of the program are written as ASCII tokens (the Arabic text is  *)
(* quoted in the comment next to each token).                              *)
(***************************************************************************)
EXTENDS Integers, Sequences, FiniteSets, TLC

(***************************************************************************)
(* Bounds of the model.                                                    *)
(***************************************************************************)
\* CURRENT_TIMESTAMP takes the values 1..MaxTime.
MaxTime == 2
\* sections.max_students, scaled down so that a section can fill up.
MaxStudents == 1
\* the number of calls of send_assignment_notifications in a behaviour
MaxDispatches == 1

(***************************************************************************)
(* Program constants.                                                      *)
(***************************************************************************)
\* config.py: STUDY_TYPES = ['صباحي', 'مسائي']
STUDY_TYPES == {"morning", "evening"}
\* config.py: DIVISIONS = ['A', 'B']
DIVISIONS == {"A", "B"}
\* create_database.py: the academic levels inserted by insert_initial_data
\* (level_id 1 to 4).
academic_levels == 1..4
\* SQL NULL in an integer or timestamp column.
NULL == 0

(***************************************************************************)
(* Reasons returned by the operations (second component of their result).  *)
(***************************************************************************)
MSG_USER_NOT_FOUND      == "user_not_found"        \* "المستخدم غير موجود"
\* "section_not_found"        "الشعبة غير موجودة"
MSG_NOT_SECTION_ADMIN   == "not_admin_of_section"  \* "ليس لديك صلاحية على هذه الشعبة"
\* "account_inactive"         "الحساب غير نشط"
\* "blocked"                  "أنت محظور من استخدام البوت"
\* "student_not_found"        "الطالب غير موجود"
MSG_ALREADY_PROCESSED   == "already_processed"     \* "الطلب غير موجود أو تمت معالجته مسبقاً"
\* "approved"                 "تمت الموافقة على الطالب بنجاح"
\* "rejected"                 "تم رفض الطالب"
\* "name_empty"               "الاسم فارغ"
\* "name_too_short"           "الاسم قصير جداً (أقل من 3 أحرف)"
\* "name_too_long"            "الاسم طويل جداً (أكثر من 100 حرف)"
\* "bad_telegram_id"          "معرف تلغرام غير صحيح"
\* "bad_user_type"            "نوع المستخدم غير صحيح"
MSG_USER_EXISTS         == "user_exists"           \* "المستخدم موجود مسبقاً"
\* "user_created"             "تم إنشاء المستخدم بنجاح"
\* "bad_section_code"         "كود الشعبة غير صحيح"
\* "section_full"             "الشعبة ممتلئة"
MSG_ALREADY_PENDING     == "already_pending"       \* "لديك طلب تسجيل معلق"
\* "already_enrolled"         "أنت مسجل بالفعل في هذه الشعبة"
\* "rejected_before"          "تم رفض طلبك سابقاً. تواصل مع الأدمن"
\* "registration_sent"        "تم إرسال طلب التسجيل بنجاح"
MSG_UNEXPECTED          == "unexpected_error"      \* "خطأ غير متوقع: ..."
\* "bad_study_type"           "نوع الدراسة غير صحيح"
\* "bad_division"             "الشعبة غير صحيحة"
\* "level_not_found"          "المرحلة الدراسية غير موجودة"
\* "admin_not_found"          "الأدمن غير موجود"
\* "code_generation_failed"   "فشل توليد الكود الفريد"
\* "section_exists"           "الشعبة موجودة مسبقاً"
\* "section_created"          "تم إنشاء الشعبة بنجاح"
\* f"تحتاج إلى صلاحية {required_type}"
NeedPermission(required_type) ==
    CASE required_type = "owner" -> "need_permission_owner"
      [] required_type = "admin" -> "need_permission_admin"
      [] OTHER -> "need_permission_student"

VARIABLES
    users,              \* table users: telegram_id -> row, for the ids that have a row
    sections,           \* table sections: sequence of rows, section_id = position
    student_sections,   \* table student_sections: sequence of rows in insertion order
    now,                \* the value CURRENT_TIMESTAMP evaluates to
    outbox,             \* messages handed to the transport: kind -> telegram_id -> count
    reply,              \* what the last operation returned to its caller
    state_storage,      \* StateMemoryStorage: telegram_id -> [state, data], for the open sessions
    assignments,        \* table assignments: sequence of rows, assignment_id = position
    assignment_notifications,  \* table assignment_notifications: sequence of rows
    dispatch,           \* the call of send_assignment_notifications in progress, and its result
    calls,              \* the approve / reject / create_section calls running in the worker threads
    db_lock             \* the thread whose connection holds SQLite's write lock, or NULL

vars == <<users, sections, student_sections, now, outbox, reply, state_storage,
          assignments, assignment_notifications, dispatch, calls, db_lock>>

\* what the conversations and the storage operations on users, sections and
\* student_sections leave alone
other_vars == <<assignments, assignment_notifications, dispatch, calls, db_lock>>

(***************************************************************************)
(* Names.  A text is abstracted to what the validators look at: its length *)
(* and its length after strip(); `text` keeps the part the claims name.    *)
(***************************************************************************)
Name(text, len, inner) == [text |-> text, len |-> len, inner |-> inner]
\* f"Admin_{admin_telegram_id}" for the small ids of the model: 7 characters
AdminName(id) == Name(<<"Admin_", id>>, 7, 7)
\* a text typed by a user, `len` characters long of which `inner` remain after strip()
Typed(len, inner) == Name(<<"typed", 0>>, len, inner)
\* the text '❌ إلغاء' (7 characters) when it is read as a name
CancelKeywordName == Name(<<"cancel_keyword", 0>>, 7, 7)
\* str.strip()
strip(name) == Name(name.text, name.inner, name.inner)

(***************************************************************************)
(* helpers.py: Validator                                                   *)
(***************************************************************************)
validate_telegram_id(telegram_id) == telegram_id > 0

\* a check that takes a name of 3 characters for a short one
validate_full_name_mut(full_name) ==
    IF full_name.len = 0 \/ full_name.inner = 0 THEN [ok |-> FALSE, msg |-> "name_empty"]
    ELSE IF full_name.len <= 3 THEN [ok |-> FALSE, msg |-> "name_too_short"]
    ELSE IF full_name.len > 100 THEN [ok |-> FALSE, msg |-> "name_too_long"]
    ELSE [ok |-> TRUE, msg |-> ""]

validate_full_name(full_name) ==
    IF full_name.len = 0 \/ full_name.inner = 0 THEN [ok |-> FALSE, msg |-> "name_empty"]
    ELSE IF full_name.len < 3 THEN [ok |-> FALSE, msg |-> "name_too_short"]
    ELSE IF full_name.len > 100 THEN [ok |-> FALSE, msg |-> "name_too_long"]
    ELSE [ok |-> TRUE, msg |-> ""]

(***************************************************************************)
(* helpers.py: PermissionChecker                                           *)
(***************************************************************************)
\* a check that lets the owner pass before it looks at is_blocked
check_user_permission_mut(telegram_id, required_type) ==
    IF telegram_id \notin DOMAIN users THEN [ok |-> FALSE, msg |-> MSG_USER_NOT_FOUND]
    ELSE LET u == users[telegram_id] IN
         IF u.is_active = 0 THEN [ok |-> FALSE, msg |-> "account_inactive"]
         ELSE IF u.user_type = "owner" THEN [ok |-> TRUE, msg |-> ""]
         ELSE IF u.is_blocked = 1 THEN [ok |-> FALSE, msg |-> "blocked"]
         ELSE IF u.user_type = required_type THEN [ok |-> TRUE, msg |-> ""]
         ELSE [ok |-> FALSE, msg |-> NeedPermission(required_type)]

check_user_permission(telegram_id, required_type) ==
    IF telegram_id \notin DOMAIN users THEN [ok |-> FALSE, msg |-> MSG_USER_NOT_FOUND]
    ELSE LET u == users[telegram_id] IN
         IF u.is_active = 0 THEN [ok |-> FALSE, msg |-> "account_inactive"]
         ELSE IF u.is_blocked = 1 THEN [ok |-> FALSE, msg |-> "blocked"]
         ELSE IF u.user_type = "owner" THEN [ok |-> TRUE, msg |-> ""]
         ELSE IF u.user_type = required_type THEN [ok |-> TRUE, msg |-> ""]
         ELSE [ok |-> FALSE, msg |-> NeedPermission(required_type)]

check_admin_section_permission_mut(telegram_id, section_id) ==
    IF telegram_id \notin DOMAIN users THEN [ok |-> FALSE, msg |-> MSG_USER_NOT_FOUND]
    ELSE IF users[telegram_id].user_type \in {"owner", "admin"} THEN [ok |-> TRUE, msg |-> ""]
    ELSE IF section_id \notin DOMAIN sections THEN [ok |-> FALSE, msg |-> "section_not_found"]
    ELSE [ok |-> FALSE, msg |-> MSG_NOT_SECTION_ADMIN]

check_admin_section_permission(telegram_id, section_id) ==
    IF telegram_id \notin DOMAIN users THEN [ok |-> FALSE, msg |-> MSG_USER_NOT_FOUND]
    ELSE IF users[telegram_id].user_type = "owner" THEN [ok |-> TRUE, msg |-> ""]
    ELSE IF section_id \notin DOMAIN sections THEN [ok |-> FALSE, msg |-> "section_not_found"]
    ELSE IF sections[section_id].admin_id = users[telegram_id].user_id THEN [ok |-> TRUE, msg |-> ""]
    ELSE [ok |-> FALSE, msg |-> MSG_NOT_SECTION_ADMIN]

(***************************************************************************)
(* database.py: UserDatabase                                               *)
(***************************************************************************)
\* INSERT INTO users: user_id is AUTOINCREMENT and no row is ever deleted
NewUserRow(telegram_id, full_name, user_type) ==
    [user_id |-> Cardinality(DOMAIN users) + 1, full_name |-> full_name,
     user_type |-> user_type, is_active |-> 1, is_blocked |-> 0]

\* an INSERT OR REPLACE: the row of an id that exists is written again
create_user_mut(telegram_id, full_name, user_type) ==
    [ok |-> TRUE, msg |-> "user_created",
     user_id |-> Cardinality(DOMAIN users) + 1,
     users |-> [t \in DOMAIN users \cup {telegram_id} |->
                  IF t = telegram_id THEN NewUserRow(telegram_id, full_name, user_type)
                  ELSE users[t]]]

create_user(telegram_id, full_name, user_type) ==
    IF ~validate_telegram_id(telegram_id)
    THEN [ok |-> FALSE, msg |-> "bad_telegram_id", user_id |-> NULL, users |-> users]
    ELSE IF ~validate_full_name(full_name).ok
    THEN [ok |-> FALSE, msg |-> validate_full_name(full_name).msg, user_id |-> NULL, users |-> users]
    ELSE IF user_type \notin {"owner", "admin", "student"}
    THEN [ok |-> FALSE, msg |-> "bad_user_type", user_id |-> NULL, users |-> users]
    ELSE IF telegram_id \in DOMAIN users
    THEN [ok |-> FALSE, msg |-> MSG_USER_EXISTS, user_id |-> users[telegram_id].user_id, users |-> users]
    ELSE [ok |-> TRUE, msg |-> "user_created",
          user_id |-> Cardinality(DOMAIN users) + 1,
          users |-> users @@ (telegram_id :> NewUserRow(telegram_id, full_name, user_type))]

(***************************************************************************)
(* helpers.py: CodeGenerator.  The random candidates are an input: draws   *)
(* is the sequence of codes secrets.token_urlsafe yields, one per attempt. *)
(***************************************************************************)
max_attempts == 10

\* a code, abstracted to what validate_section_code looks at: the prefix, the
\* number of characters after it and whether they are all in [a-zA-Z0-9];
\* `body` tells two codes apart
Code(prefix, body, len, alnum) == [prefix |-> prefix, body |-> body, len |-> len, alnum |-> alnum]
\* None
NoCode == Code("", "", 0, TRUE)
\* secrets.token_urlsafe(nbytes): the base64url text of nbytes random
\* bytes, without padding.  A text is abstracted to its length and the kinds
\* of characters in it ("letter", "digit", "-", "_"); `body` tells two
\* texts apart
token_urlsafe(nbytes, body, kinds) ==
    [body |-> body, len |-> (4 * nbytes + 2) \div 3, kinds |-> kinds]

\* a generator that keeps the '-' and '_' of the token
generate_section_code_mut(token) ==
    Code("SEC_", token.body, IF token.len < 12 THEN token.len ELSE 12,
         token.kinds \subseteq {"letter", "digit"})

\* generate_section_code(length = 12): "SEC_" and token[:length], with '-'
\* replaced by 'x' and '_' by 'y'
generate_section_code(token) ==
    LET length == 12
        sliced == IF token.len < length THEN token.len ELSE length
        replaced == (token.kinds \ {"-", "_"})
                       \cup (IF token.kinds \cap {"-", "_"} # {} THEN {"letter"} ELSE {})
    IN Code("SEC_", token.body, sliced, replaced \subseteq {"letter", "digit"})

\* a pattern that does not count the characters: r'^SEC_[a-zA-Z0-9]+$'
validate_section_code_mut(code) == code.prefix = "SEC_" /\ code.len > 0 /\ code.alnum

\* re.match(r'^SEC_[a-zA-Z0-9]{12}$', code)
validate_section_code(code) == code.prefix = "SEC_" /\ code.len = 12 /\ code.alnum

verify_code_uniqueness(code) ==
    Cardinality({i \in DOMAIN sections : sections[i].join_code = code}) = 0

generate_unique_section_code_mut(draws, attempt) == draws[attempt]

RECURSIVE generate_unique_section_code(_, _)
generate_unique_section_code(draws, attempt) ==
    IF attempt > max_attempts THEN NoCode
    ELSE IF verify_code_uniqueness(draws[attempt]) THEN draws[attempt]
    ELSE generate_unique_section_code(draws, attempt + 1)

(***************************************************************************)
(* database.py: SectionDatabase                                            *)
(***************************************************************************)
\* the constraints of table sections (create_database.py): CHECKs on
\* study_type and division, UNIQUE join_code, UNIQUE (level_id, study_type, division)
sections_constraints_ok_mut(row) ==
    /\ row.study_type \in STUDY_TYPES
    /\ row.division \in DIVISIONS
    /\ \A i \in DOMAIN sections :
          <<sections[i].level_id, sections[i].study_type, sections[i].division>>
             # <<row.level_id, row.study_type, row.division>>

sections_constraints_ok_code_mut(row) ==
    /\ row.study_type \in STUDY_TYPES
    /\ row.division \in DIVISIONS
    /\ \A i \in DOMAIN sections : sections[i].join_code # row.join_code

sections_constraints_ok(row) ==
    /\ row.study_type \in STUDY_TYPES
    /\ row.division \in DIVISIONS
    /\ \A i \in DOMAIN sections :
          /\ sections[i].join_code # row.join_code
          /\ <<sections[i].level_id, sections[i].study_type, sections[i].division>>
                # <<row.level_id, row.study_type, row.division>>

create_section(level_id, study_type, division, admin_telegram_id, owner_id, draws) ==
    LET Fail(m) == [ok |-> FALSE, msg |-> m, join_code |-> NoCode, sections |-> sections] IN
    IF study_type \notin STUDY_TYPES THEN Fail("bad_study_type")
    ELSE IF division \notin DIVISIONS THEN Fail("bad_division")
    ELSE IF level_id \notin academic_levels THEN Fail("level_not_found")
    ELSE IF admin_telegram_id \notin DOMAIN users THEN Fail("admin_not_found")
    ELSE LET join_code == generate_unique_section_code(draws, 1)
             row == [level_id |-> level_id, study_type |-> study_type, division |-> division,
                     admin_id |-> users[admin_telegram_id].user_id, join_code |-> join_code,
                     max_students |-> MaxStudents, is_active |-> 1]
         IN IF join_code = NoCode THEN Fail("code_generation_failed")
            ELSE IF ~sections_constraints_ok(row) THEN Fail("section_exists")
            ELSE [ok |-> TRUE, msg |-> "section_created", join_code |-> join_code,
                  sections |-> Append(sections, row)]

\* SELECT ... FROM sections WHERE join_code = ? AND is_active = 1 (the section_id, or NULL)
get_section_by_code(join_code) ==
    LET found == {i \in DOMAIN sections :
                    sections[i].join_code = join_code /\ sections[i].is_active = 1}
    IN IF found = {} THEN NULL ELSE CHOOSE i \in found : \A j \in found : i <= j

(***************************************************************************)
(* database.py: StudentDatabase                                            *)
(***************************************************************************)
\* rows of student_sections for a (student_id, section_id) pair
MembershipRows(table, student_id, section_id) ==
    {i \in DOMAIN table : table[i].student_id = student_id /\ table[i].section_id = section_id}

\* SELECT registration_status FROM student_sections WHERE student_id = ? AND section_id = ?
existing_membership_mut(student_id, section_id) ==
    {i \in MembershipRows(student_sections, student_id, section_id) :
        student_sections[i].registration_status # "pending"}

existing_membership(student_id, section_id) ==
    MembershipRows(student_sections, student_id, section_id)

\* SELECT COUNT(*) FROM student_sections WHERE section_id = ? AND registration_status = 'approved'
approved_count_mut(section_id) ==
    Cardinality({i \in DOMAIN student_sections :
                    /\ student_sections[i].section_id = section_id
                    /\ student_sections[i].registration_status = "pending"})

approved_count(section_id) ==
    Cardinality({i \in DOMAIN student_sections :
                    /\ student_sections[i].section_id = section_id
                    /\ student_sections[i].registration_status = "approved"})

\* the message of register_student for an existing row, by its status
existing_status_msg_mut(status) ==
    CASE status = "approved" -> "already_enrolled"
      [] OTHER -> MSG_ALREADY_PENDING

existing_status_msg(status) ==
    CASE status = "pending" -> MSG_ALREADY_PENDING
      [] status = "approved" -> "already_enrolled"
      [] OTHER -> "rejected_before"

\* the table without UNIQUE(student_id, section_id)
insert_student_section_mut(student_id, section_id) ==
    [ok |-> TRUE,
     table |-> Append(student_sections,
                      [student_id |-> student_id, section_id |-> section_id,
                       registration_status |-> "pending",
                       approved_at |-> NULL, approved_by |-> NULL, is_active |-> 1])]

\* INSERT INTO student_sections (student_id, section_id, registration_status)
\* VALUES (?, ?, 'pending'), under UNIQUE(student_id, section_id)
insert_student_section(student_id, section_id) ==
    IF MembershipRows(student_sections, student_id, section_id) # {}
    THEN [ok |-> FALSE, table |-> student_sections]
    ELSE [ok |-> TRUE,
          table |-> Append(student_sections,
                           [student_id |-> student_id, section_id |-> section_id,
                            registration_status |-> "pending",
                            approved_at |-> NULL, approved_by |-> NULL, is_active |-> 1])]

register_student(telegram_id, full_name, section_code) ==
    LET Fail(m, u) == [ok |-> FALSE, msg |-> m, users |-> u, student_sections |-> student_sections]
        section_id == get_section_by_code(section_code)
        cu == create_user(telegram_id, full_name, "student")
    IN
    IF ~validate_full_name(full_name).ok THEN Fail(validate_full_name(full_name).msg, users)
    ELSE IF section_id = NULL THEN Fail("bad_section_code", users)
    ELSE IF approved_count(section_id) >= sections[section_id].max_students
    THEN Fail("section_full", users)
    ELSE IF ~cu.ok /\ cu.msg # MSG_USER_EXISTS THEN Fail(cu.msg, cu.users)
    ELSE LET existing == existing_membership(cu.user_id, section_id)
             ins == insert_student_section(cu.user_id, section_id)
         IN IF existing # {}
            THEN Fail(existing_status_msg(
                        student_sections[CHOOSE i \in existing : TRUE].registration_status),
                      cu.users)
            ELSE IF ~ins.ok THEN Fail(MSG_UNEXPECTED, cu.users)
            ELSE [ok |-> TRUE, msg |-> "registration_sent", users |-> cu.users,
                  student_sections |-> ins.table]

\* WHERE student_id = ? AND section_id = ? AND registration_status = 'pending'
decision_where_mut(row, student_id, section_id) ==
    /\ row.student_id = student_id
    /\ row.section_id = section_id

decision_where(row, student_id, section_id) ==
    /\ row.student_id = student_id
    /\ row.section_id = section_id
    /\ row.registration_status = "pending"

approve_student(admin_telegram_id, student_telegram_id, section_id) ==
    LET Fail(m) == [ok |-> FALSE, msg |-> m, student_sections |-> student_sections]
        perm == check_admin_section_permission(admin_telegram_id, section_id)
    IN
    IF ~perm.ok THEN Fail(perm.msg)
    ELSE IF admin_telegram_id \notin DOMAIN users THEN Fail("admin_not_found")
    ELSE IF student_telegram_id \notin DOMAIN users THEN Fail("student_not_found")
    ELSE LET admin_id == users[admin_telegram_id].user_id
             student_id == users[student_telegram_id].user_id
             hit == {i \in DOMAIN student_sections :
                        decision_where(student_sections[i], student_id, section_id)}
         IN IF Cardinality(hit) = 0 THEN Fail(MSG_ALREADY_PROCESSED)
            ELSE [ok |-> TRUE, msg |-> "approved",
                  student_sections |->
                     [i \in DOMAIN student_sections |->
                        IF i \in hit
                        THEN [student_sections[i] EXCEPT !.registration_status = "approved",
                                                         !.approved_at = now,
                                                         !.approved_by = admin_id]
                        ELSE student_sections[i]]]

reject_student(admin_telegram_id, student_telegram_id, section_id) ==
    LET Fail(m) == [ok |-> FALSE, msg |-> m, student_sections |-> student_sections]
        perm == check_admin_section_permission(admin_telegram_id, section_id)
    IN
    IF ~perm.ok THEN Fail(perm.msg)
    ELSE IF admin_telegram_id \notin DOMAIN users THEN Fail("admin_not_found")
    ELSE IF student_telegram_id \notin DOMAIN users THEN Fail("student_not_found")
    ELSE LET student_id == users[student_telegram_id].user_id
             hit == {i \in DOMAIN student_sections :
                        decision_where(student_sections[i], student_id, section_id)}
         IN IF Cardinality(hit) = 0 THEN Fail(MSG_ALREADY_PROCESSED)
            ELSE [ok |-> TRUE, msg |-> "rejected",
                  student_sections |->
                     [i \in DOMAIN student_sections |->
                        IF i \in hit
                        THEN [student_sections[i] EXCEPT !.registration_status = "rejected"]
                        ELSE student_sections[i]]]


(***************************************************************************)
(* The environment: who talks to the bot, and the state after              *)
(* create_database.py and setup_owner.py have run (the schema, the levels  *)
(* and the owner's row).                                                   *)
(***************************************************************************)
OWNER_TELEGRAM_ID == 1
TelegramIds == 1..6
OutboxKinds ==
    {"approval_notice", "rejection_notice", "registration_request", "admin_assigned", "assignment"}

\* arg: the <<student telegram id, section id>> an approve / reject was about
Reply(op, ok, msg) == [op |-> op, ok |-> ok, msg |-> msg, arg |-> <<0, 0>>, link |-> NoCode]
ReplyAbout(op, ok, msg, arg) == [op |-> op, ok |-> ok, msg |-> msg, arg |-> arg, link |-> NoCode]
\* a reply that shows f"https://t.me/{Config.BOT_USERNAME}?start={join_code}":
\* link is the start parameter of the link
ReplyLink(op, ok, msg, join_code) == [op |-> op, ok |-> ok, msg |-> msg, arg |-> <<0, 0>>, link |-> join_code]

\* StateMemoryStorage with no session
NoSessions == [t \in {} |-> NULL]

\* no call of send_assignment_notifications yet
NoDispatch ==
    [pc |-> "idle", assignment_id |-> NULL, section_id |-> NULL, notification_type |-> "",
     students |-> <<>>, i |-> 1, stats |-> [sent |-> 0, failed |-> 0, blocked |-> 0],
     logged_before |-> 0, runs |-> 0, slept |-> FALSE, message_text |-> ""]

\* the worker threads of the bot that the model runs approve / reject calls on
Threads == {1, 2}
\* a thread with no call
NoCall ==
    [pc |-> "idle", caller |-> NULL, action |-> "", student_telegram_id |-> NULL,
     section_id |-> NULL, ok |-> FALSE, msg |-> ""]

\* bot.send_message(to, ...)
send_message(box, kind, to) == [box EXCEPT ![kind][to] = @ + 1]

InitStore ==
    /\ users = (OWNER_TELEGRAM_ID :>
                  [user_id |-> 1, full_name |-> Typed(5, 5), user_type |-> "owner",
                   is_active |-> 1, is_blocked |-> 0])
    /\ sections = <<>>
    /\ student_sections = <<>>
    /\ now = 1
    /\ outbox = [k \in OutboxKinds |-> [t \in TelegramIds |-> 0]]
    /\ reply = Reply("start_bot", TRUE, "")
    /\ state_storage = NoSessions
    /\ assignments = <<>>
    /\ assignment_notifications = <<>>
    /\ dispatch = NoDispatch
    /\ calls = [p \in Threads |-> NoCall]
    /\ db_lock = NULL

\* time passes: CURRENT_TIMESTAMP moves on between two operations
Tick ==
    /\ now < MaxTime
    /\ now' = now + 1
    /\ UNCHANGED <<users, sections, student_sections, outbox, reply, state_storage>>
    /\ UNCHANGED other_vars

(***************************************************************************)
(* Direct calls of the storage operations (setup_owner.py calls            *)
(* UserDatabase.create_user; SectionDatabase.create_section and            *)
(* StudentDatabase.register_student are the operations the flows end in).  *)
(***************************************************************************)
create_user_call(telegram_id, full_name, user_type) ==
    LET r == create_user(telegram_id, full_name, user_type) IN
    /\ users' = r.users
    /\ reply' = Reply("create_user", r.ok, r.msg)
    /\ UNCHANGED <<sections, student_sections, now, outbox, state_storage>>
    /\ UNCHANGED other_vars

create_section_call(level_id, study_type, division, admin_telegram_id, owner_id, draws) ==
    LET r == create_section(level_id, study_type, division, admin_telegram_id, owner_id, draws) IN
    /\ sections' = r.sections
    /\ reply' = Reply("create_section", r.ok, r.msg)
    /\ UNCHANGED <<users, student_sections, now, outbox, state_storage>>
    /\ UNCHANGED other_vars

register_student_call(telegram_id, full_name, section_code) ==
    LET r == register_student(telegram_id, full_name, section_code) IN
    /\ users' = r.users
    /\ student_sections' = r.student_sections
    /\ reply' = Reply("register", r.ok, r.msg)
    /\ UNCHANGED <<sections, now, outbox, state_storage>>
    /\ UNCHANGED other_vars

(***************************************************************************)
(* bot.py: handle_approval_decision, for a callback token                  *)
(* "<action>_<student_telegram_id>_<section_id>" pressed by `caller`.      *)
(***************************************************************************)
handle_approval_decision(caller, action, student_telegram_id, section_id) ==
    LET r == IF action = "approve"
             THEN approve_student(caller, student_telegram_id, section_id)
             ELSE reject_student(caller, student_telegram_id, section_id)
        kind == IF action = "approve" THEN "approval_notice" ELSE "rejection_notice"
    IN
    /\ action \in {"approve", "reject"}
    /\ student_sections' = r.student_sections
    /\ outbox' = IF r.ok THEN send_message(outbox, kind, student_telegram_id) ELSE outbox
    /\ reply' = ReplyAbout(action, r.ok, r.msg, <<student_telegram_id, section_id>>)
    /\ UNCHANGED <<users, sections, now, state_storage>>
    /\ UNCHANGED other_vars

\* bot.py: check_permission, as the handlers of the owner's and the admins'
\* buttons call it; the reply carries the caller
check_permission(telegram_id, required_type) ==
    LET p == check_user_permission(telegram_id, required_type) IN
    /\ reply' = ReplyAbout("check_permission", p.ok, p.msg, <<telegram_id, 0>>)
    /\ UNCHANGED <<users, sections, student_sections, now, outbox, state_storage>>
    /\ UNCHANGED other_vars

(***************************************************************************)
(* telebot: the sessions of StateMemoryStorage.  set_state keeps the data  *)
(* of a session that exists and opens one with empty data otherwise;       *)
(* retrieve_data yields the data of the session, or None when there is no  *)
(* session, and then the first use of the data in the handler raises.      *)
(* A handler registered with state=S receives a message when the sender's  *)
(* session is in state S and no handler registered before it takes it.     *)
(***************************************************************************)
NoData == [k \in {} |-> NULL]

set_state(storage, telegram_id, state) ==
    IF telegram_id \in DOMAIN storage
    THEN [storage EXCEPT ![telegram_id].state = state]
    ELSE [t \in DOMAIN storage \cup {telegram_id} |->
            IF t = telegram_id THEN [state |-> state, data |-> NoData] ELSE storage[t]]

\* a delete_state that leaves the session where it is
delete_state_mut(storage, telegram_id) == storage

delete_state(storage, telegram_id) ==
    [t \in DOMAIN storage \ {telegram_id} |-> storage[t]]

\* data[key] = value
Put(data, key, value) ==
    [k \in DOMAIN data \cup {key} |-> IF k = key THEN value ELSE data[k]]

\* with bot.retrieve_data(...) as data: data[k1] = v1; data[k2] = v2
save_data(storage, telegram_id, k1, v1, k2, v2) ==
    [storage EXCEPT ![telegram_id].data = Put(Put(@, k1, v1), k2, v2)]

\* the state of the sender's session, "" when there is none
get_state(telegram_id) ==
    IF telegram_id \in DOMAIN state_storage THEN state_storage[telegram_id].state ELSE ""

(***************************************************************************)
(* The texts of the messages, abstracted to what the handlers look at.     *)
(***************************************************************************)
\* a decimal numeral, e.g. "0", "42"
Digits(n) == [kind |-> "digits", value |-> n]
\* a text with a character that is no digit, e.g. "abc", "-5", "4.5"
Word == [kind |-> "word", value |-> 0]
\* a text of characters str.isdigit() accepts and int() rejects, e.g. "²"
Superscript == [kind |-> "superscript", value |-> 2]
\* '❌ إلغاء'
CancelKeyword == [kind |-> "cancel", value |-> 0]

\* str.isdigit()
isdigit(text) == text.kind \in {"digits", "superscript"}
\* int(text) raises ValueError
int_raises(text) == text.kind # "digits"
\* int(text)
int(text) == text.value

\* `a, b = value` raises TypeError when value is a bool
unpack_raises(value) == value \in BOOLEAN

MSG_ERROR_GENERAL       == "error_general"         \* Config.Messages.ERROR_GENERAL
\* "cancelled"                "تم إلغاء العملية" / "تم إلغاء عملية إنشاء الشعبة"
\* "choose_level"             "الخطوة 1: اختر المرحلة الدراسية"
\* "choose_study_type"        "الخطوة 2: اختر نوع الدراسة"
\* "choose_division"          "الخطوة 3: اختر الشعبة"
\* "enter_admin_id"           "الخطوة 4: أدخل معرف تلغرام للأدمن"
\* "bad_level_choice"         "خطأ في اختيار المرحلة"
\* "bad_study_type_choice"    "خطأ في اختيار نوع الدراسة"
\* "bad_division_choice"      "خطأ في اختيار الشعبة"
\* "admin_id_not_a_number"    "معرف تلغرام يجب أن يكون رقماً صحيحاً"
\* "cannot_assign_self"       "لا يمكنك تعيين نفسك كأدمن"
\* "admin_create_failed"      "خطأ في إنشاء حساب الأدمن"
\* "section_summary"          "ملخص الشعبة الجديدة"
\* "missing_data"             "بيانات ناقصة! الرجاء البدء من جديد"
\* "link_invalid"             "كود الشعبة غير صحيح أو منتهي الصلاحية"
\* "staff_cannot_enrol"       "لا يمكنك التسجيل كطالب"
\* "send_full_name"           "للتسجيل، أرسل اسمك الكامل"
\* "use_link_again"           "الرجاء استخدام رابط التسجيل مرة أخرى"
\* "welcome_new_user", "welcome_owner", "welcome_admin", "welcome_student"
\*                            Config.Messages.WELCOME_NEW_USER, WELCOME_OWNER,
\*                            WELCOME_ADMIN, WELCOME_STUDENT

\* the handler of the callbacks that start with 'approve_' or 'reject_':
\* parts is call.data.split('_'), whose first part is the action; parts[1]
\* and parts[2] are read with int(), further parts are not looked at; an
\* IndexError or ValueError ends in the except clause, which answers
\* ERROR_GENERAL
handle_approval_callback(caller, parts) ==
    IF Len(parts) < 3 \/ int_raises(parts[2]) \/ int_raises(parts[3])
    THEN /\ reply' = Reply(parts[1], FALSE, MSG_ERROR_GENERAL)
         /\ UNCHANGED <<users, sections, student_sections, now, outbox, state_storage>>
         /\ UNCHANGED other_vars
    ELSE handle_approval_decision(caller, parts[1], int(parts[2]), int(parts[3]))

\* MessageFormatter.format_section_name(level_name, study_type, division)
format_section_name(level_id, study_type, division) == <<level_id, study_type, division>>
\* academic_levels.level_name
level_name(level_id) == <<"level", level_id>>

(***************************************************************************)
(* bot.py: the commands and the registration flow                          *)
(***************************************************************************)
\* /cancel
handle_cancel(telegram_id) ==
    /\ state_storage' = delete_state(state_storage, telegram_id)
    /\ reply' = Reply("cancel", TRUE, "cancelled")
    /\ UNCHANGED <<users, sections, student_sections, now, outbox>>
    /\ UNCHANGED other_vars

\* handle_registration_link(message, code): the storage after it, and its answer
handle_registration_link_mut(telegram_id, code) ==
    LET section_id == get_section_by_code(code) IN
    IF section_id = NULL
    THEN [msg |-> "link_invalid", ok |-> FALSE,
          storage |-> set_state(state_storage, telegram_id, "waiting_for_name")]
    ELSE [msg |-> "send_full_name", ok |-> TRUE,
          storage |-> save_data(set_state(state_storage, telegram_id, "waiting_for_name"),
                                telegram_id, "section_code", code,
                                "section_name",
                                format_section_name(sections[section_id].level_id,
                                                    sections[section_id].study_type,
                                                    sections[section_id].division))]

handle_registration_link(telegram_id, code) ==
    LET section_id == get_section_by_code(code) IN
    IF section_id = NULL
    THEN [msg |-> "link_invalid", ok |-> FALSE, storage |-> state_storage]
    ELSE IF telegram_id \in DOMAIN users /\ users[telegram_id].user_type \in {"owner", "admin"}
    THEN [msg |-> "staff_cannot_enrol", ok |-> FALSE, storage |-> state_storage]
    ELSE [msg |-> "send_full_name", ok |-> TRUE,
          storage |-> save_data(set_state(state_storage, telegram_id, "waiting_for_name"),
                                telegram_id, "section_code", code,
                                "section_name",
                                format_section_name(sections[section_id].level_id,
                                                    sections[section_id].study_type,
                                                    sections[section_id].division))]

\* /start with a payload (NoCode: "/start" alone)
handle_start(telegram_id, payload) ==
    /\ IF payload # NoCode /\ validate_section_code(payload)
       THEN LET r == handle_registration_link(telegram_id, payload) IN
            /\ state_storage' = r.storage
            /\ reply' = Reply("start", r.ok, r.msg)
       ELSE /\ state_storage' = state_storage
            /\ reply' = Reply("start", TRUE,
                              IF telegram_id \notin DOMAIN users THEN "welcome_new_user"
                              ELSE IF users[telegram_id].is_blocked = 1 THEN "blocked"
                              ELSE CASE users[telegram_id].user_type = "owner" -> "welcome_owner"
                                     [] users[telegram_id].user_type = "admin" -> "welcome_admin"
                                     [] users[telegram_id].user_type = "student" -> "welcome_student"
                                     [] OTHER -> "welcome_new_user")
    /\ UNCHANGED <<users, sections, student_sections, now, outbox>>
    /\ UNCHANGED other_vars

\* a text message of a sender whose session is in state waiting_for_name
handle_student_name(telegram_id, text) ==
    LET full_name == strip(text)
        data == state_storage[telegram_id].data
        r == register_student(telegram_id, full_name, data["section_code"])
        section_id == get_section_by_code(data["section_code"])
        admins == {t \in DOMAIN users : section_id # NULL
                                        /\ users[t].user_id = sections[section_id].admin_id}
    IN
    /\ get_state(telegram_id) = "waiting_for_name"
    /\ IF ~validate_full_name(full_name).ok
       THEN /\ reply' = Reply("student_name", FALSE, validate_full_name(full_name).msg)
            /\ UNCHANGED <<users, student_sections, outbox, state_storage>>
       ELSE IF "section_code" \notin DOMAIN data
       THEN /\ reply' = Reply("student_name", FALSE, "use_link_again")
            /\ state_storage' = delete_state(state_storage, telegram_id)
            /\ UNCHANGED <<users, student_sections, outbox>>
       ELSE /\ users' = r.users
            /\ student_sections' = r.student_sections
            /\ reply' = Reply("student_name", r.ok, r.msg)
            /\ outbox' = IF r.ok /\ admins # {}
                         THEN send_message(outbox, "registration_request", CHOOSE t \in admins : TRUE)
                         ELSE outbox
            /\ state_storage' = delete_state(state_storage, telegram_id)
    /\ UNCHANGED <<sections, now>>
    /\ UNCHANGED other_vars

(***************************************************************************)
(* bot.py: the section-creation wizard                                     *)
(***************************************************************************)
\* the button '➕ إنشاء شعبة' (a text message; a sender in state
\* waiting_for_name has it taken as a name) and the inline button
\* 'owner_create_section'
start_create_section(op, telegram_id) ==
    LET p == check_user_permission(telegram_id, "owner") IN
    /\ IF ~p.ok
       THEN /\ reply' = Reply(op, FALSE, p.msg)
            /\ state_storage' = state_storage
       ELSE /\ reply' = Reply(op, TRUE, "choose_level")
            /\ state_storage' = set_state(state_storage, telegram_id, "create_section_level")
    /\ UNCHANGED <<users, sections, student_sections, now, outbox>>
    /\ UNCHANGED other_vars

handle_create_section_button(telegram_id) ==
    /\ get_state(telegram_id) # "waiting_for_name"
    /\ start_create_section("create_section_button", telegram_id)

handle_owner_create_section_inline(telegram_id) ==
    start_create_section("owner_create_section", telegram_id)

\* callback 'create_sec_level_<level_id>'
handle_section_level_selection(telegram_id, level_id) ==
    /\ IF level_id \notin academic_levels
       THEN /\ reply' = Reply("level", FALSE, "bad_level_choice")
            /\ state_storage' = state_storage
       ELSE IF telegram_id \notin DOMAIN state_storage
       THEN /\ reply' = Reply("level", FALSE, MSG_ERROR_GENERAL)
            /\ state_storage' = state_storage
       ELSE /\ reply' = Reply("level", TRUE, "choose_study_type")
            /\ state_storage' =
                  set_state(save_data(state_storage, telegram_id, "level_id", level_id,
                                      "level_name", level_name(level_id)),
                            telegram_id, "create_section_type")
    /\ UNCHANGED <<users, sections, student_sections, now, outbox>>
    /\ UNCHANGED other_vars

\* callback 'create_sec_type_<study_type>'
handle_section_type_selection(telegram_id, study_type) ==
    /\ IF study_type \notin STUDY_TYPES
       THEN /\ reply' = Reply("study_type", FALSE, "bad_study_type_choice")
            /\ state_storage' = state_storage
       ELSE IF telegram_id \notin DOMAIN state_storage
       THEN /\ reply' = Reply("study_type", FALSE, MSG_ERROR_GENERAL)
            /\ state_storage' = state_storage
       ELSE /\ reply' = Reply("study_type", TRUE, "choose_division")
            /\ state_storage' =
                  set_state([state_storage EXCEPT
                                ![telegram_id].data = Put(@, "study_type", study_type)],
                            telegram_id, "create_section_division")
    /\ UNCHANGED <<users, sections, student_sections, now, outbox>>
    /\ UNCHANGED other_vars

\* callback 'create_sec_div_<division>'
handle_section_division_selection(telegram_id, division) ==
    /\ IF division \notin DIVISIONS
       THEN /\ reply' = Reply("division", FALSE, "bad_division_choice")
            /\ state_storage' = state_storage
       ELSE IF telegram_id \notin DOMAIN state_storage
       THEN /\ reply' = Reply("division", FALSE, MSG_ERROR_GENERAL)
            /\ state_storage' = state_storage
       ELSE /\ reply' = Reply("division", TRUE, "enter_admin_id")
            /\ state_storage' =
                  set_state([state_storage EXCEPT
                                ![telegram_id].data = Put(@, "division", division)],
                            telegram_id, "create_section_admin")
    /\ UNCHANGED <<users, sections, student_sections, now, outbox>>
    /\ UNCHANGED other_vars

\* a text message of a sender whose session is in state create_section_admin.
\* Line 852 unpacks the result of Validator.validate_telegram_id, which is a
\* bool: the unpacking raises TypeError and the handler's except clause
\* answers ERROR_GENERAL and deletes the session.
handle_section_admin_input(telegram_id, text) ==
    LET admin_telegram_id == int(text)
        validated == validate_telegram_id(admin_telegram_id)
        is_valid == validated[1]
        cu == create_user(admin_telegram_id, AdminName(admin_telegram_id), "admin")
        admin_name == IF admin_telegram_id \in DOMAIN users
                      THEN users[admin_telegram_id].full_name
                      ELSE AdminName(admin_telegram_id)
        Raised == /\ reply' = Reply("admin_input", FALSE, MSG_ERROR_GENERAL)
                  /\ state_storage' = delete_state(state_storage, telegram_id)
                  /\ users' = users
        Prompt(m) == /\ reply' = Reply("admin_input", FALSE, m)
                     /\ state_storage' = state_storage
                     /\ users' = users
    IN
    /\ get_state(telegram_id) = "create_section_admin"
    /\ IF text = CancelKeyword
       THEN /\ reply' = Reply("admin_input", TRUE,
                              IF telegram_id \in DOMAIN users THEN "cancelled"
                              ELSE MSG_ERROR_GENERAL)
            /\ state_storage' = delete_state(state_storage, telegram_id)
            /\ users' = users
       ELSE IF ~isdigit(text) THEN Prompt("admin_id_not_a_number")
       ELSE IF int_raises(text) THEN Raised
       ELSE IF unpack_raises(validated) THEN Raised
       ELSE IF ~is_valid THEN Prompt("bad_telegram_id")
       ELSE IF admin_telegram_id = telegram_id THEN Prompt("cannot_assign_self")
       ELSE IF admin_telegram_id \notin DOMAIN users /\ ~cu.ok
       THEN /\ reply' = Reply("admin_input", FALSE, "admin_create_failed")
            /\ state_storage' = state_storage
            /\ users' = cu.users
       ELSE /\ reply' = Reply("admin_input", TRUE, "section_summary")
            /\ state_storage' = save_data(state_storage, telegram_id,
                                          "admin_telegram_id", admin_telegram_id,
                                          "admin_name", admin_name)
            /\ users' = IF admin_telegram_id \in DOMAIN users THEN users ELSE cu.users
    /\ UNCHANGED <<sections, student_sections, now, outbox>>
    /\ UNCHANGED other_vars

\* not all([level_id, study_type, division, admin_telegram_id]) is False
all_data(data) ==
    {"level_id", "study_type", "division", "admin_telegram_id"} \subseteq DOMAIN data

\* callback 'confirm_create_section'; draws: the codes the generator yields
handle_confirm_create_section(telegram_id, draws) ==
    LET data == state_storage[telegram_id].data
        r == create_section(data["level_id"], data["study_type"], data["division"],
                            data["admin_telegram_id"], telegram_id, draws)
    IN
    /\ state_storage' = delete_state(state_storage, telegram_id)
    /\ IF telegram_id \notin DOMAIN state_storage
       THEN /\ reply' = Reply("confirm", FALSE, MSG_ERROR_GENERAL)
            /\ UNCHANGED <<sections, outbox>>
       ELSE IF ~all_data(data)
       THEN /\ reply' = Reply("confirm", FALSE, "missing_data")
            /\ UNCHANGED <<sections, outbox>>
       ELSE /\ sections' = r.sections
            /\ reply' = ReplyLink("confirm", r.ok, r.msg, r.join_code)
            /\ outbox' = IF r.ok
                         THEN send_message(outbox, "admin_assigned", data["admin_telegram_id"])
                         ELSE outbox
    /\ UNCHANGED <<users, student_sections, now>>
    /\ UNCHANGED other_vars

\* the callback data of the cancel button in the keyboard shown at a step of
\* the wizard ("" when the step shows none): the level, study type and
\* division steps, and the summary that follows a valid admin id
cancel_button(step) ==
    CASE step \in {"create_section_level", "create_section_type", "create_section_division"}
           -> "create_sec_cancel"
      [] step = "summary" -> "cancel_create_section"
      [] OTHER -> ""

\* the handler whose filter accepts a callback of the summary's or of a
\* cancel button ("" when no registered filter accepts it)
callback_handler(data) ==
    CASE data = "confirm_create_section" -> "handle_confirm_create_section"
      [] data = "create_sec_cancel" -> "handle_cancel_create_section"
      [] OTHER -> ""

\* callback 'create_sec_cancel'
handle_cancel_create_section(telegram_id) ==
    /\ state_storage' = delete_state(state_storage, telegram_id)
    /\ reply' = Reply("cancel_create_section", TRUE, "cancelled")
    /\ UNCHANGED <<users, sections, student_sections, now, outbox>>
    /\ UNCHANGED other_vars

(***************************************************************************)
(* database.py: UserDatabase.block_user, AssignmentDatabase and            *)
(* NotificationDatabase                                                    *)
(***************************************************************************)
block_user(telegram_id, admin_id) ==
    IF telegram_id \notin DOMAIN users
    THEN [ok |-> FALSE, msg |-> MSG_USER_NOT_FOUND, users |-> users]
    ELSE [ok |-> TRUE, msg |-> "user_blocked",
          users |-> [users EXCEPT ![telegram_id].is_blocked = 1]]

\* helpers.py: Validator.validate_assignment_title, on a title given by its length class, as a name is
validate_assignment_title(title) ==
    IF title.len = 0 \/ title.inner = 0 THEN [ok |-> FALSE, msg |-> "title_empty"]
    ELSE IF title.len < 3 THEN [ok |-> FALSE, msg |-> "title_too_short"]
    ELSE IF title.len > 200 THEN [ok |-> FALSE, msg |-> "title_too_long"]
    ELSE [ok |-> TRUE, msg |-> ""]

\* helpers.py: Validator.validate_deadline, with the time counted in days
validate_deadline(deadline) ==
    IF deadline <= now THEN [ok |-> FALSE, msg |-> "deadline_not_in_future"]
    ELSE IF deadline > now + 365 THEN [ok |-> FALSE, msg |-> "deadline_too_far"]
    ELSE [ok |-> TRUE, msg |-> ""]

\* the subject is looked up or inserted by name and plays no part in the
\* flows modelled here
create_assignment(section_id, title, deadline, admin_telegram_id) ==
    LET Fail(m) == [ok |-> FALSE, msg |-> m, assignments |-> assignments]
        p == check_admin_section_permission(admin_telegram_id, section_id)
    IN
    IF ~validate_assignment_title(title).ok THEN Fail(validate_assignment_title(title).msg)
    ELSE IF ~validate_deadline(deadline).ok THEN Fail(validate_deadline(deadline).msg)
    ELSE IF ~p.ok THEN Fail(p.msg)
    ELSE [ok |-> TRUE, msg |-> "assignment_created",
          assignments |-> Append(assignments,
                                 [section_id |-> section_id, title |-> title,
                                  deadline |-> deadline,
                                  created_by |-> users[admin_telegram_id].user_id,
                                  is_active |-> 1])]

\* a lookup that finds an assignment under every id
get_assignment_by_id_mut(assignment_id) == assignment_id

\* SELECT a.* ... WHERE a.assignment_id = ? (the assignment_id, or NULL)
get_assignment_by_id(assignment_id) ==
    IF assignment_id \in DOMAIN assignments THEN assignment_id ELSE NULL

\* a query that leaves out the conditions on the section and the status
get_approved_students_mut(section_id) ==
    {t \in DOMAIN users :
        /\ users[t].is_blocked = 0
        /\ \E i \in DOMAIN student_sections :
              /\ student_sections[i].student_id = users[t].user_id
              /\ student_sections[i].is_active = 1}

\* the telegram ids of the rows get_approved_students returns
get_approved_students(section_id) ==
    {t \in DOMAIN users :
        /\ users[t].is_blocked = 0
        /\ \E i \in DOMAIN student_sections :
              /\ student_sections[i].student_id = users[t].user_id
              /\ student_sections[i].section_id = section_id
              /\ student_sections[i].registration_status = "approved"
              /\ student_sections[i].is_active = 1}

\* the lists in which a query ORDER BY u.full_name can return these rows
\* (the names of the model are not ordered)
Orderings(S) ==
    {q \in [1..Cardinality(S) -> S] : \A i, j \in DOMAIN q : q[i] = q[j] => i = j}

\* create_database.py: CHECK(notification_type IN (...)), CHECK(delivery_status IN (...))
NOTIFICATION_TYPES == {"new", "edit", "delete", "reminder"}
DELIVERY_STATUSES == {"sent", "failed", "blocked"}

\* log_notification never raises: a failed INSERT is logged and reported
\* in its result, which send_assignment_notifications does not look at
log_notification(table, assignment_id, student_telegram_id, notification_type, delivery_status) ==
    IF student_telegram_id \notin DOMAIN users THEN table
    ELSE IF \/ notification_type \notin NOTIFICATION_TYPES
            \/ delivery_status \notin DELIVERY_STATUSES
            \/ assignment_id \notin DOMAIN assignments
    THEN table
    ELSE Append(table, [assignment_id |-> assignment_id,
                        student_id |-> users[student_telegram_id].user_id,
                        notification_type |-> notification_type,
                        delivery_status |-> delivery_status])

(***************************************************************************)
(* bot.py: send_assignment_notifications.  Each turn of its loop is a step *)
(* of its own; the turn that ends the loop returns the statistics.  A turn *)
(* whose send succeeded ends with time.sleep(NOTIFICATION_DELAY_SECONDS);  *)
(* a turn whose send raised ends in the except clause, without a sleep:    *)
(* slept tells whether the last turn slept.                                *)
(***************************************************************************)
\* what bot.send_message does for one recipient: it returns, it raises an
\* error whose text has "blocked" in it, or it raises another error
TransportOutcomes == {"delivered", "blocked_by_user", "other_error"}

\* a choice of template that takes a cancellation for a new assignment
message_template_mut(notification_type) ==
    CASE notification_type = "edit" -> "edit"
      [] OTHER -> "new"

\* the template message_text is built from: format_assignment_message
\* ("new"), the same after a line that says the assignment was edited
\* ("edit"), or the line that says the assignment was cancelled ("delete")
message_template(notification_type) ==
    CASE notification_type = "new" -> "new"
      [] notification_type = "edit" -> "edit"
      [] notification_type = "delete" -> "delete"
      [] OTHER -> "new"

\* the statistics after one recipient
count_outcome_mut(stats, outcome) ==
    CASE outcome = "delivered" -> [stats EXCEPT !.sent = @ + 1]
      [] outcome = "blocked_by_user" -> [stats EXCEPT !.blocked = @ + 1]
      [] OTHER -> stats

count_outcome(stats, outcome) ==
    CASE outcome = "delivered" -> [stats EXCEPT !.sent = @ + 1]
      [] outcome = "blocked_by_user" -> [stats EXCEPT !.blocked = @ + 1]
      [] OTHER -> [stats EXCEPT !.failed = @ + 1]

\* a status that takes a block for a failure
delivery_status_mut(outcome) ==
    CASE outcome = "delivered" -> "sent"
      [] OTHER -> "failed"

delivery_status(outcome) ==
    CASE outcome = "delivered" -> "sent"
      [] outcome = "blocked_by_user" -> "blocked"
      [] OTHER -> "failed"

\* the call, up to the first send
send_assignment_notifications(assignment_id, section_id, notification_type) ==
    LET students == get_approved_students(section_id)
        called == [NoDispatch EXCEPT !.assignment_id = assignment_id,
                                     !.section_id = section_id,
                                     !.notification_type = notification_type,
                                     !.logged_before = Len(assignment_notifications),
                                     !.runs = dispatch.runs + 1]
    IN
    /\ dispatch.pc # "sending"
    /\ dispatch.runs < MaxDispatches
    /\ IF get_assignment_by_id(assignment_id) = NULL \/ students = {}
       THEN dispatch' = [called EXCEPT !.pc = "returned"]
       ELSE \E q \in Orderings(students) :
               dispatch' = [called EXCEPT !.pc = "sending", !.students = q,
                                          !.message_text = message_template(notification_type)]
    /\ UNCHANGED <<users, sections, student_sections, now, outbox, reply, state_storage,
                   assignments, assignment_notifications, calls, db_lock>>

\* a loop that gives up at the first error that is not a block
send_to_student_mut(outcome) ==
    LET student == dispatch.students[dispatch.i] IN
    /\ dispatch.pc = "sending"
    /\ outbox' = send_message(outbox, "assignment", student)
    /\ assignment_notifications' =
          log_notification(assignment_notifications, dispatch.assignment_id, student,
                           dispatch.notification_type, delivery_status(outcome))
    /\ dispatch' = [dispatch EXCEPT
                       !.stats = count_outcome(@, outcome),
                       !.i = @ + 1,
                       !.slept = (outcome = "delivered"),
                       !.pc = IF dispatch.i = Len(dispatch.students) \/ outcome = "other_error"
                              THEN "returned" ELSE "sending"]
    /\ UNCHANGED <<users, sections, student_sections, now, reply, state_storage,
                   assignments, calls, db_lock>>

\* one turn of `for student in students`
send_to_student(outcome) ==
    LET student == dispatch.students[dispatch.i] IN
    /\ dispatch.pc = "sending"
    /\ outbox' = send_message(outbox, "assignment", student)
    /\ assignment_notifications' =
          log_notification(assignment_notifications, dispatch.assignment_id, student,
                           dispatch.notification_type, delivery_status(outcome))
    /\ dispatch' = [dispatch EXCEPT
                       !.stats = count_outcome(@, outcome),
                       !.i = @ + 1,
                       !.slept = (outcome = "delivered"),
                       !.pc = IF dispatch.i = Len(dispatch.students)
                              THEN "returned" ELSE "sending"]
    /\ UNCHANGED <<users, sections, student_sections, now, reply, state_storage,
                   assignments, calls, db_lock>>

(***************************************************************************)
(* Two button presses handled at the same time.  telebot runs the handlers *)
(* in worker threads; each call of approve_student / reject_student opens  *)
(* its own connection.  The UPDATE takes SQLite's write lock and keeps it  *)
(* until commit(); a connection that finds the lock taken waits for it at  *)
(* most DB_TIMEOUT_SECONDS and then raises "database is locked", which     *)
(* the operation reports as an unexpected error.  Between the UPDATE and   *)
(* the commit the operation calls ActivityDatabase.log_activity, which     *)
(* opens a second connection and waits DB_TIMEOUT_SECONDS for the lock     *)
(* its caller holds before it gives up.                                    *)
(***************************************************************************)
\* approve_student / reject_student as one step, on the committed tables
decision(call) ==
    IF call.action = "approve"
    THEN approve_student(call.caller, call.student_telegram_id, call.section_id)
    ELSE reject_student(call.caller, call.student_telegram_id, call.section_id)

\* the handler answers the press and, after a success, tells the student
decision_return(p, ok, msg) ==
    /\ calls' = [calls EXCEPT ![p].pc = "done", ![p].ok = ok, ![p].msg = msg]
    /\ reply' = ReplyAbout(calls[p].action, ok, msg,
                            <<calls[p].student_telegram_id, calls[p].section_id>>)
    /\ outbox' = IF ok
                 THEN send_message(outbox,
                                   IF calls[p].action = "approve"
                                   THEN "approval_notice" ELSE "rejection_notice",
                                   calls[p].student_telegram_id)
                 ELSE outbox

\* the press arrives: the permission check and the two SELECTs of the ids
decision_begin(p, caller, action, student_telegram_id, section_id) ==
    LET call == [NoCall EXCEPT !.caller = caller, !.action = action,
                               !.student_telegram_id = student_telegram_id,
                               !.section_id = section_id]
        r == decision(call)
    IN
    /\ calls[p].pc = "idle"
    /\ action \in {"approve", "reject"}
    /\ IF ~r.ok /\ r.msg # MSG_ALREADY_PROCESSED
       THEN /\ calls' = [calls EXCEPT ![p] = [call EXCEPT !.pc = "done", !.msg = r.msg]]
            /\ reply' = ReplyAbout(action, FALSE, r.msg, <<student_telegram_id, section_id>>)
       ELSE /\ calls' = [calls EXCEPT ![p] = [call EXCEPT !.pc = "update"]]
            /\ reply' = reply
    /\ UNCHANGED <<users, sections, student_sections, now, outbox, state_storage,
                   assignments, assignment_notifications, dispatch, db_lock>>

\* UPDATE student_sections ... WHERE ... AND registration_status = 'pending',
\* with the write lock free: no row matched and the call returns, or the
\* connection keeps the lock for its transaction
decision_update(p) ==
    LET r == decision(calls[p]) IN
    /\ calls[p].pc = "update"
    /\ db_lock = NULL
    /\ IF r.ok
       THEN /\ calls' = [calls EXCEPT ![p].pc = "log_activity"]
            /\ db_lock' = p
            /\ UNCHANGED <<reply, outbox>>
       ELSE /\ decision_return(p, FALSE, r.msg)
            /\ db_lock' = db_lock
    /\ UNCHANGED <<users, sections, student_sections, now, state_storage,
                   assignments, assignment_notifications, dispatch>>

\* the UPDATE has waited DB_TIMEOUT_SECONDS for a lock another connection holds
decision_update_timeout(p) ==
    /\ calls[p].pc = "update"
    /\ db_lock \notin {NULL, p}
    /\ decision_return(p, FALSE, MSG_UNEXPECTED)
    /\ UNCHANGED <<users, sections, student_sections, now, state_storage,
                   assignments, assignment_notifications, dispatch, db_lock>>

\* ActivityDatabase.log_activity gives up after DB_TIMEOUT_SECONDS; its
\* failure is logged and the operation goes on
decision_log_activity(p) ==
    /\ calls[p].pc = "log_activity"
    /\ db_lock = p
    /\ calls' = [calls EXCEPT ![p].pc = "commit"]
    /\ UNCHANGED <<users, sections, student_sections, now, outbox, reply, state_storage,
                   assignments, assignment_notifications, dispatch, db_lock>>

\* conn.commit(): the row changes for the other connections, the lock is released
decision_commit(p) ==
    LET r == decision(calls[p]) IN
    /\ calls[p].pc = "commit"
    /\ db_lock = p
    /\ student_sections' = r.student_sections
    /\ db_lock' = NULL
    /\ decision_return(p, r.ok, r.msg)
    /\ UNCHANGED <<users, sections, now, state_storage,
                   assignments, assignment_notifications, dispatch>>

(***************************************************************************)
(* Two calls of SectionDatabase.create_section handled at the same time.   *)
(* A call reads the level and the admin and has the generator check its    *)
(* candidates against the committed table; its INSERT then takes the write *)
(* lock, or fails on a constraint, or gives up after DB_TIMEOUT_SECONDS    *)
(* when another connection keeps the lock; between the INSERT and the      *)
(* commit the call waits in ActivityDatabase.log_activity, as above.       *)
(***************************************************************************)
\* the call up to the INSERT; draws: the codes the generator yields
create_section_begin(p, level_id, study_type, division, admin_telegram_id, owner_id, draws) ==
    LET r == create_section(level_id, study_type, division, admin_telegram_id, owner_id, draws)
        call == [pc |-> "insert", caller |-> owner_id, action |-> "create_section",
                 level_id |-> level_id, study_type |-> study_type, division |-> division,
                 admin_telegram_id |-> admin_telegram_id,
                 join_code |-> generate_unique_section_code(draws, 1),
                 ok |-> FALSE, msg |-> ""]
    IN
    /\ calls[p].pc \in {"idle", "done"}
    /\ IF ~r.ok /\ r.msg # "section_exists"
       THEN /\ calls' = [calls EXCEPT ![p] = [call EXCEPT !.pc = "done", !.msg = r.msg]]
            /\ reply' = Reply("create_section", FALSE, r.msg)
       ELSE /\ calls' = [calls EXCEPT ![p] = call]
            /\ reply' = reply
    /\ UNCHANGED <<users, sections, student_sections, now, outbox, state_storage,
                   assignments, assignment_notifications, dispatch, db_lock>>

\* INSERT INTO sections (...) VALUES (...)
create_section_insert(p) ==
    LET row == [level_id |-> calls[p].level_id, study_type |-> calls[p].study_type,
                division |-> calls[p].division,
                admin_id |-> users[calls[p].admin_telegram_id].user_id,
                join_code |-> calls[p].join_code,
                max_students |-> MaxStudents, is_active |-> 1]
        Return(m) == /\ calls' = [calls EXCEPT ![p].pc = "done", ![p].msg = m]
                     /\ reply' = Reply("create_section", FALSE, m)
                     /\ db_lock' = db_lock
    IN
    /\ calls[p].pc = "insert"
    /\ IF db_lock \notin {NULL, p} THEN Return(MSG_UNEXPECTED)
       ELSE IF ~sections_constraints_ok(row) THEN Return("section_exists")
       ELSE /\ calls' = [calls EXCEPT ![p].pc = "commit"]
            /\ db_lock' = p
            /\ reply' = reply
    /\ UNCHANGED <<users, sections, student_sections, now, outbox, state_storage,
                   assignments, assignment_notifications, dispatch>>

\* conn.commit(): the row is in the table for the other connections
create_section_commit(p) ==
    /\ calls[p].pc = "commit"
    /\ db_lock = p
    /\ sections' = Append(sections,
                          [level_id |-> calls[p].level_id, study_type |-> calls[p].study_type,
                           division |-> calls[p].division,
                           admin_id |-> users[calls[p].admin_telegram_id].user_id,
                           join_code |-> calls[p].join_code,
                           max_students |-> MaxStudents, is_active |-> 1])
    /\ db_lock' = NULL
    /\ calls' = [calls EXCEPT ![p].pc = "done", ![p].ok = TRUE, ![p].msg = "section_created"]
    /\ reply' = ReplyLink("create_section", TRUE, "section_created", calls[p].join_code)
    /\ UNCHANGED <<users, student_sections, now, outbox, state_storage,
                   assignments, assignment_notifications, dispatch>>

(***************************************************************************)
(* Two calls of StudentDatabase.register_student handled at the same time. *)
(* A call reads the section, the count of the approved Memberships and the *)
(* existing Membership from the committed tables, and has                  *)
(* UserDatabase.create_user insert and commit the student on a connection  *)
(* of its own; its INSERT then takes the write lock, or fails on           *)
(* UNIQUE(student_id, section_id), or gives up after DB_TIMEOUT_SECONDS    *)
(* when another connection keeps the lock; between the INSERT and the      *)
(* commit the call waits in ActivityDatabase.log_activity, as above.       *)
(* Every exception ends in the except clause, which returns a failure.     *)
(***************************************************************************)
\* the call up to the INSERT
register_student_begin(p, telegram_id, full_name, section_code) ==
    LET r == register_student(telegram_id, full_name, section_code)
        call == [pc |-> "insert", caller |-> telegram_id, action |-> "register",
                 student_telegram_id |-> telegram_id,
                 section_id |-> get_section_by_code(section_code),
                 ok |-> FALSE, msg |-> ""]
        Return(m, u) ==
            /\ calls' = [calls EXCEPT ![p] = [call EXCEPT !.pc = "done", !.msg = m]]
            /\ users' = u
            /\ reply' = ReplyAbout("register", FALSE, m, <<telegram_id, call.section_id>>)
    IN
    /\ calls[p].pc \in {"idle", "done"}
    /\ IF r.users # users /\ db_lock # NULL THEN Return(MSG_UNEXPECTED, users)
       ELSE IF ~r.ok THEN Return(r.msg, r.users)
       ELSE /\ calls' = [calls EXCEPT ![p] = call]
            /\ users' = r.users
            /\ reply' = reply
    /\ UNCHANGED <<sections, student_sections, now, outbox, state_storage,
                   assignments, assignment_notifications, dispatch, db_lock>>

\* INSERT INTO student_sections (student_id, section_id, registration_status)
register_student_insert(p) ==
    LET ins == insert_student_section(users[calls[p].student_telegram_id].user_id,
                                      calls[p].section_id)
        Return(m) ==
            /\ calls' = [calls EXCEPT ![p].pc = "done", ![p].msg = m]
            /\ reply' = ReplyAbout("register", FALSE, m,
                                    <<calls[p].student_telegram_id, calls[p].section_id>>)
            /\ db_lock' = db_lock
    IN
    /\ calls[p].pc = "insert"
    /\ calls[p].action = "register"
    /\ IF db_lock \notin {NULL, p} THEN Return(MSG_UNEXPECTED)
       ELSE IF ~ins.ok THEN Return(MSG_UNEXPECTED)
       ELSE /\ calls' = [calls EXCEPT ![p].pc = "commit"]
            /\ db_lock' = p
            /\ reply' = reply
    /\ UNCHANGED <<users, sections, student_sections, now, outbox, state_storage,
                   assignments, assignment_notifications, dispatch>>

\* conn.commit(): the row is in the table for the other connections
register_student_commit(p) ==
    /\ calls[p].pc = "commit"
    /\ calls[p].action = "register"
    /\ db_lock = p
    /\ student_sections' =
          insert_student_section(users[calls[p].student_telegram_id].user_id,
                                 calls[p].section_id).table
    /\ db_lock' = NULL
    /\ calls' = [calls EXCEPT ![p].pc = "done", ![p].ok = TRUE, ![p].msg = "registration_sent"]
    /\ reply' = ReplyAbout("register", TRUE, "registration_sent",
                            <<calls[p].student_telegram_id, calls[p].section_id>>)
    /\ UNCHANGED <<users, sections, now, outbox, state_storage,
                   assignments, assignment_notifications, dispatch>>

(***************************************************************************)
(* Specification of the enrolment store.  A deployment first creates two   *)
(* admins and a section for each; then students register and anybody       *)
(* presses approve / reject buttons.                                       *)
(***************************************************************************)
\* secrets.token_urlsafe yielding the same code at every attempt
ConstantDraws(code) == [i \in 1..max_attempts |-> code]

\* the codes made of three tokens: letters only, every kind of character,
\* letters and digits
CodeA == generate_section_code(token_urlsafe(12, "aaaaaaaaaaaa", {"letter"}))
CodeB == generate_section_code(token_urlsafe(12, "bbbbbbbbbbbb", {"letter", "digit", "-", "_"}))
MembershipStudents == {4, 5}
MembershipCallers == {1, 2, 3, 4, 6}
\* the join links the students open
MembershipLinks == {<<4, CodeA>>, <<4, CodeB>>, <<5, CodeA>>}

MembershipSetup ==
    \/ /\ Cardinality(DOMAIN users) = 1
       /\ create_user_call(2, AdminName(2), "admin")
    \/ /\ Cardinality(DOMAIN users) = 2
       /\ create_user_call(3, AdminName(3), "admin")
    \/ /\ Cardinality(DOMAIN users) = 3 /\ Len(sections) = 0
       /\ create_section_call(1, "morning", "A", 2, OWNER_TELEGRAM_ID, ConstantDraws(CodeA))
    \/ /\ Len(sections) = 1
       /\ create_section_call(1, "morning", "B", 3, OWNER_TELEGRAM_ID, ConstantDraws(CodeB))

\* the names the students type: a valid one and one that is too short
MembershipNames == {Typed(9, 9), Typed(2, 2)}

MembershipRegister ==
    \E l \in MembershipLinks, n \in MembershipNames : register_student_call(l[1], n, l[2])

\* the buttons pressed: <<student telegram id, section id>>
MembershipButtons == {<<4, 1>>, <<4, 2>>, <<5, 1>>}

MembershipDecision ==
    \E c \in MembershipCallers, a \in {"approve", "reject"}, b \in MembershipButtons :
        handle_approval_decision(c, a, b[1], b[2])

NextMembership ==
    \/ MembershipSetup
    \/ MembershipRegister
    \/ MembershipDecision

SpecMembership == InitStore /\ [][NextMembership]_vars

(***************************************************************************)
(* Specification of the double tap: one student of section 1, whose        *)
(* approve / reject buttons are pressed again and again, by the section's  *)
(* admin, by the owner and by the admin of the other section, while time   *)
(* passes; the same principals also send callbacks no button carries.      *)
(***************************************************************************)
ApprovalCallers == {1, 2, 3}
ApprovalButtons == {<<4, 1>>}

\* callback data that have not the shape of a button's: 'approve_4',
\* 'reject_abc_1', 'approve_4_abc', 'approve_4_1_9' and 'reject_4_1_abc'
MalformedTokens ==
    {<<"approve", Digits(4)>>, <<"reject", Word, Digits(1)>>, <<"approve", Digits(4), Word>>,
     <<"approve", Digits(4), Digits(1), Digits(9)>>, <<"reject", Digits(4), Digits(1), Word>>}

NextApproval ==
    \/ Tick
    \/ MembershipSetup
    \/ register_student_call(4, Typed(9, 9), CodeA)
    \/ \E c \in ApprovalCallers, a \in {"approve", "reject"}, b \in ApprovalButtons :
          handle_approval_decision(c, a, b[1], b[2])
    \/ \E c \in ApprovalCallers, d \in MalformedTokens : handle_approval_callback(c, d)

SpecApproval == InitStore /\ [][NextApproval]_vars

(***************************************************************************)
(* Specification of the conversations: the owner (1), the admin (2) of     *)
(* the section with code CodeA and a newcomer (4) send commands, texts and *)
(* button presses in any order.  The wizard's inline buttons are pressed   *)
(* by the principals they were shown to, at any time (a button of an old   *)
(* message stays on the screen).                                           *)
(***************************************************************************)
EngineUsers == {1, 2, 4}
EngineOwners == {1}
\* the payloads of /start: none, the codes of two sections (CodeB before
\* or after its section is created), and payloads that are no code: too
\* short, one character short, one character long, with a character that
\* is no letter or digit, with another prefix
EnginePayloads == {NoCode, CodeA, CodeB, Code("SEC_", "cc", 2, TRUE),
                   Code("SEC_", "dd", 11, TRUE), Code("SEC_", "ee", 13, TRUE),
                   Code("SEC_", "ff", 12, FALSE), Code("sec_", "gg", 12, TRUE)}
\* the texts typed as a name: 3 characters, 100 characters between blanks,
\* 2 characters, 2 characters between blanks, blanks only, 101 characters,
\* and the cancel keyword
EngineNames == {Typed(3, 3), Typed(102, 100), Typed(2, 2), Typed(4, 2), Typed(3, 0),
                Typed(101, 101), CancelKeywordName}
\* level ids, study types and divisions offered by the buttons, and one more of each
EngineLevels == academic_levels \cup {9}
EngineStudyTypes == STUDY_TYPES \cup {"night"}
EngineDivisions == DIVISIONS \cup {"C"}
\* texts sent at the admin step: the ids 0, 1 (the owner), 2 (a known
\* principal) and 3 (unknown), a word, a superscript digit and the cancel keyword
AdminInputs == {Digits(0), Digits(1), Digits(2), Digits(3), Word, Superscript, CancelKeyword}

EngineSetup ==
    \/ /\ Cardinality(DOMAIN users) = 1
       /\ create_user_call(2, AdminName(2), "admin")
    \/ /\ Cardinality(DOMAIN users) >= 2 /\ Len(sections) = 0
       /\ create_section_call(1, "morning", "A", 2, OWNER_TELEGRAM_ID, ConstantDraws(CodeA))

Next ==
    \/ EngineSetup
    \/ \E t \in EngineUsers : handle_cancel(t)
    \/ \E t \in EngineUsers, p \in EnginePayloads : handle_start(t, p)
    \/ \E t \in EngineUsers, n \in EngineNames : handle_student_name(t, n)
    \/ \E t \in EngineUsers : handle_create_section_button(t)
    \/ \E t \in EngineUsers : handle_owner_create_section_inline(t)
    \/ \E t \in EngineOwners, l \in EngineLevels : handle_section_level_selection(t, l)
    \/ \E t \in EngineOwners, s \in EngineStudyTypes : handle_section_type_selection(t, s)
    \/ \E t \in EngineOwners, d \in EngineDivisions : handle_section_division_selection(t, d)
    \/ \E t \in EngineUsers, x \in AdminInputs : handle_section_admin_input(t, x)
    \/ \E t \in EngineOwners : handle_confirm_create_section(t, ConstantDraws(CodeB))
    \/ \E t \in EngineOwners : handle_cancel_create_section(t)

Spec == InitStore /\ [][Next]_vars

(***************************************************************************)
(* Specification of the dispatch: the admin (2) of section 1 has an        *)
(* assignment; the students 4 and 5 register and are approved or rejected, *)
(* 5 may be blocked, and send_assignment_notifications is called for the   *)
(* assignment or for one that does not exist, for section 1 or for a       *)
(* section that has no member, with any kind.  The handlers run in worker  *)
(* threads: a decision or a block may happen between two sends of a call.  *)
(***************************************************************************)
create_assignment_call(section_id, title, deadline, admin_telegram_id) ==
    LET r == create_assignment(section_id, title, deadline, admin_telegram_id) IN
    /\ assignments' = r.assignments
    /\ reply' = Reply("create_assignment", r.ok, r.msg)
    /\ UNCHANGED <<users, sections, student_sections, now, outbox, state_storage,
                   assignment_notifications, dispatch, calls, db_lock>>

block_user_call(telegram_id, admin_id) ==
    LET r == block_user(telegram_id, admin_id) IN
    /\ users' = r.users
    /\ reply' = Reply("block_user", r.ok, r.msg)
    /\ UNCHANGED <<sections, student_sections, now, outbox, state_storage, other_vars>>

\* UserDatabase.unblock_user, called directly
unblock_user(telegram_id, admin_id) ==
    /\ IF telegram_id \notin DOMAIN users
       THEN /\ users' = users
            /\ reply' = Reply("unblock_user", FALSE, MSG_USER_NOT_FOUND)
       ELSE /\ users' = [users EXCEPT ![telegram_id].is_blocked = 0]
            /\ reply' = Reply("unblock_user", TRUE, "user_unblocked")
    /\ UNCHANGED <<sections, student_sections, now, outbox, state_storage, other_vars>>

DispatchSetup ==
    \/ /\ Cardinality(DOMAIN users) = 1
       /\ create_user_call(2, AdminName(2), "admin")
    \/ /\ Cardinality(DOMAIN users) >= 2 /\ Len(sections) = 0
       /\ create_section_call(1, "morning", "A", 2, OWNER_TELEGRAM_ID, ConstantDraws(CodeA))
    \/ /\ Len(sections) = 1 /\ Len(assignments) = 0
       /\ create_assignment_call(1, Typed(9, 9), now + 1, 2)

DispatchStudents == {4, 5}
\* the kinds a caller passes: two of the schema and one that is not in it
DispatchKinds == {"new", "reminder", "urgent"}
\* the assignment created above and an id of no assignment
DispatchAssignments == {1, 2}

NextDispatch ==
    \/ DispatchSetup
    \/ \E t \in DispatchStudents : register_student_call(t, Typed(9, 9), CodeA)
    \/ \E t \in DispatchStudents, a \in {"approve", "reject"} : handle_approval_decision(2, a, t, 1)
    \/ block_user_call(5, OWNER_TELEGRAM_ID)
    \/ \E a \in DispatchAssignments, k \in DispatchKinds, s \in {1, 2} :
          send_assignment_notifications(a, s, k)
    \/ \E o \in TransportOutcomes : send_to_student(o)

SpecDispatch == InitStore /\ [][NextDispatch]_vars

\* the dispatch under the scheduling of the code: the loop of a call that
\* is sending goes on to its next turn (bot.send_message returns or raises,
\* log_notification returns, and the sleep ends)
SpecDispatchFair ==
    SpecDispatch /\ WF_vars(\E o \in TransportOutcomes : send_to_student(o))

(***************************************************************************)
(* Specification of the templates: the students 4 and 5 of section 1 are   *)
(* approved, and send_assignment_notifications is called for the section's *)
(* assignment with each kind of the schema and with one that is not in it. *)
(***************************************************************************)
NextTemplate ==
    \/ DispatchSetup
    \/ \E t \in DispatchStudents : register_student_call(t, Typed(9, 9), CodeA)
    \/ \E t \in DispatchStudents : handle_approval_decision(2, "approve", t, 1)
    \/ \E k \in NOTIFICATION_TYPES \cup {"urgent"} : send_assignment_notifications(1, 1, k)
    \/ \E o \in TransportOutcomes : send_to_student(o)

SpecTemplate == InitStore /\ [][NextTemplate]_vars

(***************************************************************************)
(* Specification of the enrolment conversations: after the deployment of   *)
(* the enrolment store, the owner (1), the admin of section 1 (2) and      *)
(* student 4 send /start, alone, with a join link or with another payload, *)
(* and student 5 opens the link of section 1; the students type names, the *)
(* admin of section 1 presses their approve / reject buttons, and student  *)
(* 4 may be blocked.                                                       *)
(***************************************************************************)
NextEnrolment ==
    \/ MembershipSetup
    \/ \E t \in {1, 2, 4}, p \in EnginePayloads : handle_start(t, p)
    \/ handle_start(5, CodeA)
    \/ \E t \in MembershipStudents, n \in MembershipNames : handle_student_name(t, n)
    \/ \E a \in {"approve", "reject"}, t \in MembershipStudents :
          handle_approval_decision(2, a, t, 1)
    \/ block_user_call(4, OWNER_TELEGRAM_ID)

SpecEnrolment == InitStore /\ [][NextEnrolment]_vars

(***************************************************************************)
(* Specification of the role check: an admin (2) and a student (4) are     *)
(* created in any order, any principal (the owner included) or an unknown *)
(* id is blocked, and check_permission is called for any caller and any    *)
(* required role.  No operation of the program clears users.is_active.     *)
(***************************************************************************)
NextPermission ==
    \/ \E c \in {<<2, "admin">>, <<4, "student">>} :
          create_user_call(c[1], AdminName(c[1]), c[2])
    \/ \E t \in TelegramIds : block_user_call(t, OWNER_TELEGRAM_ID)
    \/ \E t \in TelegramIds, q \in {"owner", "admin", "student"} :
          check_permission(t, q)

SpecPermission == InitStore /\ [][NextPermission]_vars

(***************************************************************************)
(* Specification of the roles: the admin (2) and section 1 are created;    *)
(* the principal 4 is created as a student or as an admin, at any time, or *)
(* is created by its registration, and is blocked and unblocked; the owner *)
(* (1) and 4 open the join link, type a name, and send the button that     *)
(* starts the wizard, a level choice and the confirmation.                 *)
(***************************************************************************)
NextRoles ==
    \/ create_user_call(2, AdminName(2), "admin")
    \/ \E r \in {"student", "admin"} : create_user_call(4, Typed(9, 9), r)
    \/ create_section_call(1, "morning", "A", 2, OWNER_TELEGRAM_ID, ConstantDraws(CodeA))
    \/ block_user_call(4, OWNER_TELEGRAM_ID)
    \/ unblock_user(4, OWNER_TELEGRAM_ID)
    \/ \E t \in {1, 4} : handle_start(t, CodeA)
    \/ \E t \in {1, 4} : handle_student_name(t, Typed(9, 9))
    \/ \E t \in {1, 4} : handle_create_section_button(t)
    \/ \E t \in {1, 4} : handle_section_level_selection(t, 1)
    \/ \E t \in {1, 4} : handle_confirm_create_section(t, ConstantDraws(CodeB))

SpecRoles == InitStore /\ [][NextRoles]_vars

(***************************************************************************)
(* Specification of the race: student 4 has registered for section 1, and  *)
(* each of the two threads handles one press of an approve or reject       *)
(* button of that request, by the owner (1), by the admin of the section   *)
(* (2) or by the student (4).                                              *)
(***************************************************************************)
RaceCallers == {1, 2, 4}

RaceSetup ==
    \/ /\ Cardinality(DOMAIN users) = 1
       /\ create_user_call(2, AdminName(2), "admin")
    \/ /\ Cardinality(DOMAIN users) >= 2 /\ Len(sections) = 0
       /\ create_section_call(1, "morning", "A", 2, OWNER_TELEGRAM_ID, ConstantDraws(CodeA))
    \/ /\ Len(sections) = 1 /\ Len(student_sections) = 0
       /\ register_student_call(4, Typed(9, 9), CodeA)

\* the buttons are in the message the admin gets when the student has registered
RacePress ==
    /\ Len(student_sections) = 1
    /\ \E p \in Threads, c \in RaceCallers, a \in {"approve", "reject"} :
          decision_begin(p, c, a, 4, 1)

NextRace ==
    \/ RaceSetup
    \/ RacePress
    \/ \E p \in Threads : decision_update(p)
    \/ \E p \in Threads : decision_update_timeout(p)
    \/ \E p \in Threads : decision_log_activity(p)
    \/ \E p \in Threads : decision_commit(p)

SpecRace == InitStore /\ [][NextRace]_vars

(***************************************************************************)
(* Specification of the creations: after the deployment of the enrolment   *)
(* store, or between two of its calls (each of which runs while no other   *)
(* connection holds the write lock), the two threads handle create_section *)
(* calls of the owner, for the triple of section 1 or for a new one, with  *)
(* a generator whose candidates are the code of section 1 for the first k  *)
(* attempts and a fresh code afterwards.                                   *)
(***************************************************************************)
CodeC == generate_section_code(token_urlsafe(12, "cccccccccccc", {"letter", "digit"}))
\* the candidates of a call: c1 for the first k attempts, c2 afterwards
Draws(k, c1, c2) == [i \in 1..(max_attempts + 1) |-> IF i <= k THEN c1 ELSE c2]
CreationDraws == {Draws(0, CodeA, CodeC), Draws(max_attempts - 1, CodeA, CodeC),
                  Draws(max_attempts, CodeA, CodeC)}
\* <<level_id, study_type, division>>
CreationTriples == {<<1, "morning", "A">>, <<2, "evening", "A">>}

NextCreation ==
    \/ db_lock = NULL /\ MembershipSetup
    \/ \E p \in Threads, t \in CreationTriples, d \in CreationDraws :
          create_section_begin(p, t[1], t[2], t[3], 2, OWNER_TELEGRAM_ID, d)
    \/ \E p \in Threads : create_section_insert(p)
    \/ \E p \in Threads : create_section_commit(p)

SpecCreation == InitStore /\ [][NextCreation]_vars

(***************************************************************************)
(* Specification of the registrations: after the deployment of the         *)
(* enrolment store, the two threads handle register_student calls of the   *)
(* students 4 and 5 for section 1.                                         *)
(***************************************************************************)
NextRegistration ==
    \/ db_lock = NULL /\ MembershipSetup
    \/ \E p \in Threads, t \in MembershipStudents :
          register_student_begin(p, t, Typed(9, 9), CodeA)
    \/ \E p \in Threads : register_student_insert(p)
    \/ \E p \in Threads : register_student_commit(p)

SpecRegistration == InitStore /\ [][NextRegistration]_vars

(***************************************************************************)
(* Properties of the enrolment store                                       *)
(***************************************************************************)
\* the row of student_sections for (student telegram id, section id), if any
RowsOf(student_telegram_id, section_id) ==
    IF student_telegram_id \in DOMAIN users
    THEN MembershipRows(student_sections, users[student_telegram_id].user_id, section_id)
    ELSE {}

HasStatus(student_telegram_id, section_id, status) ==
    \E i \in RowsOf(student_telegram_id, section_id) :
        student_sections[i].registration_status = status

UniqueMembership ==
    \A i, j \in DOMAIN student_sections :
        (/\ student_sections[i].student_id = student_sections[j].student_id
         /\ student_sections[i].section_id = student_sections[j].section_id) => i = j

\* C2 as stated: at most one Membership per (principal, section) pair, and a
\* register call (with a name that passes validation) for a pair whose
\* Membership is pending fails with 'already pending' and inserts nothing.
C2_Original ==
    /\ []UniqueMembership
    /\ [][\A l \in MembershipLinks, n \in MembershipNames :
            (/\ HasStatus(l[1], get_section_by_code(l[2]), "pending")
             /\ validate_full_name(n).ok
             /\ register_student_call(l[1], n, l[2]))
            => (/\ ~reply'.ok
                /\ reply'.msg = MSG_ALREADY_PENDING
                /\ student_sections' = student_sections)]_vars

\* C2 (amended): at most one Membership per (principal, section) pair; a
\* register call for a pair whose Membership is pending fails and inserts
\* nothing, and its reason is 'already pending' when the name is valid and
\* the section is below its capacity.
C2_Theorem ==
    /\ []UniqueMembership
    /\ [][\A l \in MembershipLinks, n \in MembershipNames :
            (/\ HasStatus(l[1], get_section_by_code(l[2]), "pending")
             /\ register_student_call(l[1], n, l[2]))
            => (/\ ~reply'.ok
                /\ student_sections' = student_sections
                /\ (/\ validate_full_name(n).ok
                    /\ approved_count(get_section_by_code(l[2])) < MaxStudents)
                   => reply'.msg = MSG_ALREADY_PENDING)]_vars

C2_Witness ==
    /\ reply.op = "register"
    /\ reply.msg = MSG_ALREADY_PENDING
    /\ \E i \in DOMAIN student_sections : student_sections[i].registration_status = "pending"

\* the principals checkSectionAdmin is meant to let through: an owner, or the admin of the section
MayDecide(caller, section_id) ==
    /\ caller \in DOMAIN users
    /\ \/ users[caller].user_type = "owner"
       \/ /\ section_id \in DOMAIN sections
          /\ sections[section_id].admin_id = users[caller].user_id

\* C5: an approve (by a principal entitled to decide for the section) of a
\* Membership that is already approved fails with 'already processed' and
\* changes neither the Membership (status, approvedAt, approvedBy), nor the
\* number of approved members of the section, nor the messages sent to the student.
C5_Theorem ==
    [][\A c \in ApprovalCallers, b \in ApprovalButtons :
          (/\ HasStatus(b[1], b[2], "approved")
           /\ MayDecide(c, b[2])
           /\ handle_approval_decision(c, "approve", b[1], b[2]))
          => (/\ ~reply'.ok
              /\ reply'.msg = MSG_ALREADY_PROCESSED
              /\ student_sections' = student_sections
              /\ approved_count(b[2])' = approved_count(b[2])
              /\ outbox' = outbox)]_vars

C5_Witness ==
    /\ reply.op = "approve"
    /\ reply.msg = MSG_ALREADY_PROCESSED
    /\ \E i \in RowsOf(reply.arg[1], reply.arg[2]) :
          /\ student_sections[i].registration_status = "approved"
          /\ student_sections[i].approved_at < now
    /\ outbox["approval_notice"][reply.arg[1]] = 1

\* C7: a Membership's status changes only from pending to approved or from
\* pending to rejected; rows are never removed and never change their pair.
C7_Theorem ==
    [][/\ Len(student_sections') >= Len(student_sections)
       /\ \A i \in DOMAIN student_sections :
            /\ student_sections'[i].student_id = student_sections[i].student_id
            /\ student_sections'[i].section_id = student_sections[i].section_id
            /\ student_sections'[i].registration_status # student_sections[i].registration_status
               => (/\ student_sections[i].registration_status = "pending"
                   /\ student_sections'[i].registration_status \in {"approved", "rejected"})]_vars

\* an operation was tried on a Membership that was already decided
C7_Witness ==
    /\ reply.op \in {"approve", "reject"}
    /\ reply.msg = MSG_ALREADY_PROCESSED
    /\ \/ reply.op = "approve" /\ HasStatus(reply.arg[1], reply.arg[2], "rejected")
       \/ reply.op = "reject" /\ HasStatus(reply.arg[1], reply.arg[2], "approved")

\* C8: an approve / reject by a principal that is neither an owner nor the
\* admin of the section fails and changes nothing; and a Membership of a
\* section changes status only in an approve / reject by such a principal.
C8_Theorem ==
    [][/\ \A c \in MembershipCallers, a \in {"approve", "reject"},
          t \in MembershipStudents, s \in 1..2 :
            (~MayDecide(c, s) /\ handle_approval_decision(c, a, t, s))
            => (~reply'.ok /\ UNCHANGED <<users, sections, student_sections, outbox>>)
       /\ \A i \in DOMAIN student_sections :
            student_sections'[i].registration_status # student_sections[i].registration_status
            => \E c \in MembershipCallers, a \in {"approve", "reject"}, t \in MembershipStudents :
                  /\ MayDecide(c, student_sections[i].section_id)
                  /\ handle_approval_decision(c, a, t, student_sections[i].section_id)]_vars

\* the admin of another section pressed a button for a pending Membership
C8_Witness ==
    /\ reply.op \in {"approve", "reject"}
    /\ reply.msg = MSG_NOT_SECTION_ADMIN
    /\ HasStatus(reply.arg[1], reply.arg[2], "pending")

\* C12: a register call for a section whose approved Memberships have
\* reached max_students fails and inserts no Membership (and creates no
\* principal), whoever calls and whatever Memberships the caller holds; the
\* reason is the capacity one whenever the name passes validation.
C12_Theorem ==
    [][\A l \in MembershipLinks, n \in MembershipNames :
          LET s == get_section_by_code(l[2]) IN
          (/\ s # NULL
           /\ Cardinality({i \in DOMAIN student_sections :
                              /\ student_sections[i].section_id = s
                              /\ student_sections[i].registration_status = "approved"})
                 >= sections[s].max_students
           /\ register_student_call(l[1], n, l[2]))
          => (/\ ~reply'.ok
              /\ student_sections' = student_sections
              /\ users' = users
              /\ validate_full_name(n).ok => reply'.msg = "section_full")]_vars

\* a newcomer was turned away from a section that student 4 had filled
C12_Witness ==
    /\ reply.op = "register"
    /\ reply.msg = "section_full"
    /\ HasStatus(4, 1, "approved")
    /\ 5 \notin DOMAIN users

\* C13: a register call by a principal whose Membership of the section is
\* rejected fails, inserts nothing and leaves that Membership rejected; the
\* reason is 'rejected before' when the name is valid and the section is
\* below its capacity.
C13_Theorem ==
    [][\A l \in MembershipLinks, n \in MembershipNames :
          LET s == get_section_by_code(l[2]) IN
          (/\ HasStatus(l[1], s, "rejected")
           /\ register_student_call(l[1], n, l[2]))
          => (/\ ~reply'.ok
              /\ student_sections' = student_sections
              /\ HasStatus(l[1], s, "rejected")'
              /\ (/\ validate_full_name(n).ok
                  /\ approved_count(s) < sections[s].max_students)
                 => reply'.msg = "rejected_before")]_vars

\* a rejected student registered again and was refused
C13_Witness ==
    /\ reply.op = "register"
    /\ reply.msg = "rejected_before"
    /\ \E i \in DOMAIN student_sections : student_sections[i].registration_status = "rejected"

(***************************************************************************)
(* Properties of the creations                                             *)
(***************************************************************************)
\* C15: in every reachable state the join codes of the sections are
\* pairwise distinct, also when two creations have drawn the same candidate
\* before either of them has inserted its row.
C15_Theorem ==
    \A i, j \in DOMAIN sections : sections[i].join_code = sections[j].join_code => i = j

\* two calls for different triples drew the same code and both passed the
\* generator's check; one has created its section and the other one failed
C15_Witness ==
    /\ \A p \in Threads : calls[p].pc = "done" /\ calls[p].action = "create_section"
    /\ calls[1].join_code = calls[2].join_code
    /\ calls[1].join_code # NoCode
    /\ calls[1].level_id # calls[2].level_id
    /\ calls[1].ok /\ ~calls[2].ok
    /\ \E i \in DOMAIN sections : sections[i].join_code = calls[1].join_code

\* C16: a creation whose first max_attempts (10) candidates all are the
\* codes of existing sections fails with the generator's reason and adds no
\* section, whatever the generator would have yielded next; a creation
\* whose 10th candidate is the first fresh one goes on with that candidate.
C16_Theorem ==
    [][\A p \in Threads, t \in CreationTriples, d \in CreationDraws :
          (/\ 2 \in DOMAIN users
           /\ create_section_begin(p, t[1], t[2], t[3], 2, OWNER_TELEGRAM_ID, d))
          => /\ (\A k \in 1..max_attempts : \E i \in DOMAIN sections : sections[i].join_code = d[k])
                => (/\ calls'[p].pc = "done"
                    /\ ~calls'[p].ok
                    /\ calls'[p].msg = "code_generation_failed"
                    /\ ~reply'.ok
                    /\ sections' = sections)
             /\ (/\ \A k \in 1..(max_attempts - 1) :
                       \E i \in DOMAIN sections : sections[i].join_code = d[k]
                 /\ \A i \in DOMAIN sections : sections[i].join_code # d[max_attempts])
                => (calls'[p].pc = "insert" /\ calls'[p].join_code = d[max_attempts])]_vars

\* a creation has given up on its code while only section 1 existed
C16_Witness ==
    /\ \E p \in Threads : calls[p].pc = "done" /\ calls[p].msg = "code_generation_failed"
    /\ reply.op = "create_section"
    /\ reply.msg = "code_generation_failed"
    /\ Len(sections) = 1

\* C18: in every reachable state at most one active section exists for
\* each (level, study type, division), also after two creations for the
\* same triple were handled at the same time.
C18_Theorem ==
    \A i, j \in DOMAIN sections :
        (/\ sections[i].is_active = 1
         /\ sections[j].is_active = 1
         /\ sections[i].level_id = sections[j].level_id
         /\ sections[i].study_type = sections[j].study_type
         /\ sections[i].division = sections[j].division) => i = j

\* two calls for the same new triple, with different codes, are over: one
\* has created the section and the other one was refused
C18_Witness ==
    /\ \A p \in Threads : calls[p].pc = "done" /\ calls[p].action = "create_section"
    /\ calls[1].level_id = 2 /\ calls[2].level_id = 2
    /\ calls[1].join_code # calls[2].join_code
    /\ calls[2].join_code # NoCode
    /\ calls[1].ok /\ ~calls[2].ok
    /\ calls[2].msg = "section_exists"

(***************************************************************************)
(* Properties of the conversations                                         *)
(***************************************************************************)
\* the session of t is, after the step, exactly what it was before it
SessionKept(t) ==
    /\ t \in DOMAIN state_storage
    /\ t \in DOMAIN state_storage'
    /\ state_storage'[t] = state_storage[t]

\* the admin ids the wizard is meant to turn down for owner t: a text that
\* is no number, a number that is not positive, the owner's own id
RejectedAdminInputs(t) == {Word, Digits(0), Digits(t)}

\* C1: in every section-creation or registration state, an input that fails
\* the state's validation rule (an unknown level id; a study type or a
\* division outside the allowed values; an admin id that is no number, not
\* positive or the owner's own; a name outside the length bounds) leaves the
\* session's state and data as they were and does not end the session.
C1_Claim ==
    [][\A t \in EngineUsers :
          /\ \A l \in EngineLevels \ academic_levels :
                (t \in DOMAIN state_storage /\ handle_section_level_selection(t, l))
                => SessionKept(t)
          /\ \A s \in EngineStudyTypes \ STUDY_TYPES :
                (t \in DOMAIN state_storage /\ handle_section_type_selection(t, s))
                => SessionKept(t)
          /\ \A d \in EngineDivisions \ DIVISIONS :
                (t \in DOMAIN state_storage /\ handle_section_division_selection(t, d))
                => SessionKept(t)
          /\ \A x \in RejectedAdminInputs(t) :
                handle_section_admin_input(t, x) => SessionKept(t)
          /\ \A n \in EngineNames :
                (~validate_full_name(strip(n)).ok /\ handle_student_name(t, n))
                => SessionKept(t)]_vars

\* an admin id the wizard is meant to accept from owner t: a positive
\* number, not the owner's own, of no existing principal
FreshAdminInput(t, x) ==
    /\ x.kind = "digits"
    /\ x.value > 0
    /\ x.value # t
    /\ x.value \notin DOMAIN users

\* C9: an owner who has chosen a level, a study type and a division and
\* sends a positive admin id that is not their own and belongs to no
\* principal reaches the confirmation with all four values in the session;
\* the confirmation then creates the section of that triple, the principal
\* of that id exists with role admin, and the link in the answer carries
\* the join code of the section.
C9_Claim ==
    [][\A t \in EngineOwners :
          /\ \A x \in AdminInputs :
                (/\ FreshAdminInput(t, x)
                 /\ t \in DOMAIN state_storage
                 /\ {"level_id", "study_type", "division"} \subseteq DOMAIN state_storage[t].data
                 /\ handle_section_admin_input(t, x))
                => (/\ t \in DOMAIN state_storage'
                    /\ all_data(state_storage'[t].data)
                    /\ state_storage'[t].data["admin_telegram_id"] = x.value
                    /\ x.value \in DOMAIN users'
                    /\ users'[x.value].user_type = "admin")
          /\ (/\ t \in DOMAIN state_storage
              /\ all_data(state_storage[t].data)
              /\ handle_confirm_create_section(t, ConstantDraws(CodeB)))
             => (/\ reply'.ok
                 /\ Len(sections') = Len(sections) + 1
                 /\ sections'[Len(sections')].level_id = state_storage[t].data["level_id"]
                 /\ sections'[Len(sections')].study_type = state_storage[t].data["study_type"]
                 /\ sections'[Len(sections')].division = state_storage[t].data["division"]
                 /\ sections'[Len(sections')].join_code = reply'.link
                 /\ state_storage[t].data["admin_telegram_id"] \in DOMAIN users'
                 /\ users'[state_storage[t].data["admin_telegram_id"]].user_type = "admin")]_vars

\* C10: at the admin step, a valid id of no existing principal creates,
\* at that step, the principal "Admin_<id>" with role admin; cancelling the
\* wizard afterwards removes no principal.
C10_Claim ==
    [][\A t \in EngineUsers :
          /\ \A x \in AdminInputs :
                (FreshAdminInput(t, x) /\ handle_section_admin_input(t, x))
                => (/\ x.value \in DOMAIN users'
                    /\ users'[x.value].user_type = "admin"
                    /\ users'[x.value].full_name = AdminName(x.value))
          /\ (handle_cancel_create_section(t) \/ handle_cancel(t))
             => (\A u \in DOMAIN users : u \in DOMAIN users' /\ users'[u] = users[u])]_vars

\* C11: a /start whose payload has the form of a join code and resolves to
\* no active section (no section has the code, or the section that has it is
\* not active) is answered with a rejection and changes no session, no
\* principal and no Membership.
C11_Theorem ==
    [][\A t \in EngineUsers, p \in EnginePayloads :
          (/\ p # NoCode
           /\ validate_section_code(p)
           /\ \A i \in DOMAIN sections : sections[i].join_code = p => sections[i].is_active # 1
           /\ handle_start(t, p))
          => (/\ ~reply'.ok
              /\ reply'.msg = "link_invalid"
              /\ state_storage' = state_storage
              /\ users' = users
              /\ student_sections' = student_sections)]_vars

\* a link with a code of the right form that no section has was turned
\* down, while a section exists and nobody has a session or a Membership
C11_Witness ==
    /\ reply.op = "start"
    /\ reply.msg = "link_invalid"
    /\ Len(sections) = 1
    /\ state_storage = NoSessions
    /\ student_sections = <<>>

\* C14: a /start with a join code of an active section, sent by a principal
\* whose role is owner or admin, is refused: no session in waiting_for_name
\* is opened for the sender and every session is left as it was.
C14_Theorem ==
    [][\A t \in EngineUsers, p \in EnginePayloads :
          (/\ validate_section_code(p)
           /\ \E i \in DOMAIN sections : sections[i].join_code = p /\ sections[i].is_active = 1
           /\ t \in DOMAIN users
           /\ users[t].user_type \in {"owner", "admin"}
           /\ handle_start(t, p))
          => (/\ ~reply'.ok
              /\ reply'.msg = "staff_cannot_enrol"
              /\ state_storage' = state_storage
              /\ get_state(t)' # "waiting_for_name")]_vars

\* the owner opened a join link in the middle of the wizard and was refused
C14_Witness ==
    /\ reply.op = "start"
    /\ reply.msg = "staff_cannot_enrol"
    /\ OWNER_TELEGRAM_ID \in DOMAIN state_storage
    /\ state_storage[OWNER_TELEGRAM_ID].state = "create_section_division"

\* the step's input ended the session of t and created or changed no
\* principal, section or Membership
TornDown(t) ==
    /\ t \notin DOMAIN state_storage'
    /\ UNCHANGED <<users, sections, student_sections>>

\* C19: at every step of the wizard (level, study type, division, admin id
\* and the summary) the cancel input the step offers is served by a handler
\* that ends the session and leaves sections and Memberships as they were:
\* the cancel button of the step's keyboard, and the cancel keyword at the
\* admin step.
C19_Claim ==
    /\ [][\A t \in EngineOwners :
             /\ (/\ callback_handler(cancel_button(get_state(t))) = "handle_cancel_create_section"
                 /\ handle_cancel_create_section(t)) => TornDown(t)
             /\ handle_section_admin_input(t, CancelKeyword) => TornDown(t)]_vars
    /\ [](\A step \in {"create_section_level", "create_section_type",
                        "create_section_division", "summary"} :
             callback_handler(cancel_button(step)) = "handle_cancel_create_section")

\* C20: in every state of a session, the cancel command and the cancel
\* keyword end the session and create no Membership, principal or section:
\* /cancel, the keyword at the admin step and the keyword in waiting_for_name.
C20_Claim ==
    [][\A t \in EngineUsers :
          /\ handle_cancel(t) => TornDown(t)
          /\ handle_section_admin_input(t, CancelKeyword) => TornDown(t)
          /\ handle_student_name(t, CancelKeywordName) => TornDown(t)]_vars

\* C21: a section-creation session moves forward one step at a time: the
\* input of a step (a level, study type or division button, the confirm
\* button) that arrives while the session is in another step's state does
\* not change the session's state -- a division choice while in level, a
\* level or study-type choice while in admin id, a confirm before the admin
\* id was answered.
C21_Claim ==
    [][\A t \in EngineOwners :
          LET StateKept == /\ t \in DOMAIN state_storage'
                           /\ state_storage[t].state = state_storage'[t].state
          IN
          t \in DOMAIN state_storage =>
             /\ \A l \in academic_levels :
                   (get_state(t) # "create_section_level"
                    /\ handle_section_level_selection(t, l)) => StateKept
             /\ \A s \in STUDY_TYPES :
                   (get_state(t) # "create_section_type"
                    /\ handle_section_type_selection(t, s)) => StateKept
             /\ \A d \in DIVISIONS :
                   (get_state(t) # "create_section_division"
                    /\ handle_section_division_selection(t, d)) => StateKept
             /\ ("admin_telegram_id" \notin DOMAIN state_storage[t].data
                 /\ handle_confirm_create_section(t, ConstantDraws(CodeB)))
                => StateKept]_vars

\* C22: after a name that passes validation is submitted in
\* waiting_for_name, the sender has no session any more, whether the
\* registration succeeded (a pending Membership was inserted) or failed
\* (the section is full, or the pair has a Membership already).
C22_Theorem ==
    [][\A t \in MembershipStudents, n \in MembershipNames :
          (validate_full_name(strip(n)).ok /\ handle_student_name(t, n))
          => /\ t \notin DOMAIN state_storage'
             /\ reply'.ok => Len(student_sections') = Len(student_sections) + 1
             /\ ~reply'.ok => student_sections' = student_sections]_vars

\* both students of section 1 have no session after their names: 4 was
\* registered and approved, 5 was turned down because the section is full
C22_Witness ==
    /\ reply.op = "student_name"
    /\ reply.msg = "section_full"
    /\ DOMAIN state_storage = {}
    /\ HasStatus(4, 1, "approved")
    /\ RowsOf(5, 1) = {}

\* C23: the role check denies every blocked or inactive principal, the
\* owner included, with the reason of being blocked or inactive; it allows
\* an active principal that is not blocked exactly when its role is owner
\* or the required role; it denies an unknown principal.
C23_Theorem ==
    [][\A t \in TelegramIds, q \in {"owner", "admin", "student"} :
          check_permission(t, q) =>
             IF t \notin DOMAIN users THEN ~reply'.ok
             ELSE IF users[t].is_active = 0
             THEN ~reply'.ok /\ reply'.msg = "account_inactive"
             ELSE IF users[t].is_blocked = 1
             THEN ~reply'.ok /\ reply'.msg = "blocked"
             ELSE /\ reply'.ok <=> (users[t].user_type = "owner" \/ users[t].user_type = q)
                  /\ reply'.msg \notin {"blocked", "account_inactive"}]_vars

\* the owner was blocked and is denied with the reason of being blocked,
\* while a student and an admin exist
C23_Witness ==
    /\ reply.op = "check_permission"
    /\ reply.arg[1] = OWNER_TELEGRAM_ID
    /\ ~reply.ok /\ reply.msg = "blocked"
    /\ users[OWNER_TELEGRAM_ID].is_blocked = 1
    /\ {2, 4} \subseteq DOMAIN users

\* C24: the section-admin check lets the owner pass for every section and
\* a principal that is not the owner exactly when it is the admin of the
\* section; it denies with three reasons that differ from one another: the
\* caller is unknown, the section is unknown, the caller is not the admin
\* of this section.  (Seen through the approve / reject buttons, whose
\* answer is the reason of the check when the check denies.)
C24_Theorem ==
    [][LET Denials == {MSG_USER_NOT_FOUND, "section_not_found", MSG_NOT_SECTION_ADMIN} IN
       /\ Cardinality(Denials) = 3
       /\ \A c \in MembershipCallers, a \in {"approve", "reject"}, b \in MembershipButtons :
             handle_approval_decision(c, a, b[1], b[2]) =>
                IF c \notin DOMAIN users
                THEN ~reply'.ok /\ reply'.msg = MSG_USER_NOT_FOUND
                ELSE IF users[c].user_type = "owner"
                THEN reply'.msg \notin Denials
                ELSE IF b[2] \notin DOMAIN sections
                THEN ~reply'.ok /\ reply'.msg = "section_not_found"
                ELSE IF sections[b[2]].admin_id = users[c].user_id
                THEN reply'.msg \notin Denials
                ELSE ~reply'.ok /\ reply'.msg = MSG_NOT_SECTION_ADMIN]_vars

\* an admin pressed a button of section 2 before that section existed,
\* while a student of section 1 was waiting for a decision
C24_Witness ==
    /\ reply.op \in {"approve", "reject"}
    /\ reply.msg = "section_not_found"
    /\ reply.arg[2] = 2
    /\ Len(sections) = 1
    /\ HasStatus(4, 1, "pending")

\* C32: a payload of /start starts the registration only if it is SEC_
\* followed by exactly 12 letters or digits; with any other payload (or
\* none) the sessions stay as they are -- none is created -- and the
\* sender gets the answer of a plain /start: the welcome of their role, or
\* the notice that they are blocked.
C32_Theorem ==
    [][\A t \in {1, 2, 4}, p \in EnginePayloads :
          handle_start(t, p) =>
             LET is_join_code == p.prefix = "SEC_" /\ p.len = 12 /\ p.alnum IN
             /\ (get_state(t)' = "waiting_for_name" /\ state_storage' # state_storage)
                => is_join_code
             /\ ~is_join_code
                => /\ state_storage' = state_storage
                   /\ UNCHANGED <<users, sections, student_sections>>
                   /\ reply'.msg =
                         (IF t \notin DOMAIN users THEN "welcome_new_user"
                          ELSE IF users[t].is_blocked = 1 THEN "blocked"
                          ELSE IF users[t].user_type = "owner" THEN "welcome_owner"
                          ELSE IF users[t].user_type = "admin" THEN "welcome_admin"
                          ELSE "welcome_student")]_vars

\* student 4, blocked, sent a /start that opens no registration and got
\* the notice; the only session is the one of student 5, who is typing
\* their name
C32_Witness ==
    /\ reply.op = "start"
    /\ reply.msg = "blocked"
    /\ 4 \in DOMAIN users /\ users[4].is_blocked = 1
    /\ DOMAIN state_storage = {5}
    /\ state_storage[5].state = "waiting_for_name"

\* C33: a name typed in waiting_for_name is accepted exactly when it has
\* between 3 and 100 characters once the blanks around it are removed (3
\* and 100 are accepted; 2, 101 and a text of blanks are not); a name that
\* is not accepted leaves the session as it is, in waiting_for_name, and
\* creates no principal and no Membership, so it can be repeated for ever.
C33_Theorem ==
    [][\A t \in EngineUsers, n \in EngineNames :
          handle_student_name(t, n) =>
             LET accepted == n.inner >= 3 /\ n.inner <= 100
                 turned_down == reply'.msg \in {"name_empty", "name_too_short", "name_too_long"}
             IN
             /\ accepted <=> ~turned_down
             /\ ~accepted
                => /\ ~reply'.ok
                   /\ state_storage' = state_storage
                   /\ get_state(t)' = "waiting_for_name"
                   /\ UNCHANGED <<users, sections, student_sections, outbox>>]_vars

\* a name of 3 characters was registered
C33_Witness ==
    /\ reply.op = "student_name"
    /\ reply.ok
    /\ 4 \in DOMAIN users
    /\ users[4].full_name = Typed(3, 3)
    /\ HasStatus(4, 1, "pending")

\* C34: every code the generator makes is one the validator accepts: SEC_
\* and exactly 12 characters, letters and digits only, whatever characters
\* the random token has.  So the join code of every section that was
\* created is a code of that form, and /start with it is taken as a join
\* link: the answer is the one of the registration, not the one of a plain
\* /start.
C34_Theorem ==
    /\ [](\A i \in DOMAIN sections :
             /\ sections[i].join_code.prefix = "SEC_"
             /\ sections[i].join_code.len = 12
             /\ sections[i].join_code.alnum
             /\ validate_section_code(sections[i].join_code))
    /\ [][\A t \in {1, 2, 4}, i \in DOMAIN sections :
             handle_start(t, sections[i].join_code)
             => reply'.msg \in {"send_full_name", "staff_cannot_enrol"}]_vars

\* student 4 opened the link of section 2, whose code was made of a token
\* with '-' and '_' in it, and was asked for their name
C34_Witness ==
    /\ Len(sections) = 2
    /\ sections[2].join_code.body = "bbbbbbbbbbbb"
    /\ reply.op = "start" /\ reply.msg = "send_full_name"
    /\ 4 \in DOMAIN state_storage
    /\ state_storage[4].data["section_code"] = sections[2].join_code

\* C35: a callback that starts with approve_ or reject_ and has not exactly
\* the shape <action>_<student telegram id>_<section id> with two integers
\* (a part is missing, an id is no number, a part follows the section id)
\* is turned down as bad input: the handler answers with an error and no
\* Membership changes.
C35_Claim ==
    [][\A c \in ApprovalCallers, d \in MalformedTokens :
          handle_approval_callback(c, d)
          => /\ ~reply'.ok
             /\ reply'.msg = MSG_ERROR_GENERAL
             /\ UNCHANGED <<users, sections, student_sections, outbox>>]_vars

\* C36: there is one principal per telegram id -- no two rows of users
\* share an id, and no step replaces or removes the row of an id -- and the
\* role of a principal never changes: a registration or a creation with an
\* id that exists, the creation of a section whose admin exists, a block
\* and an unblock leave user_type (and user_id) as they were.
C36_Theorem ==
    /\ [](\A t, u \in DOMAIN users : users[t].user_id = users[u].user_id => t = u)
    /\ [][\A t \in DOMAIN users :
             /\ t \in DOMAIN users'
             /\ users'[t].user_type = users[t].user_type
             /\ users'[t].user_id = users[t].user_id]_vars

\* 4, a student who holds a Membership of section 1, was named in a
\* creation, which was turned down
C36_Witness ==
    /\ reply.op = "create_user" /\ ~reply.ok
    /\ 4 \in DOMAIN users
    /\ users[4].user_type = "student"
    /\ HasStatus(4, 1, "pending")
    /\ Len(sections) = 1

\* C37: a principal whom check_user_permission denies the role owner never
\* has a session in a state of the wizard and creates no section: the
\* button that starts the wizard, the choice of a level and the
\* confirmation, sent by such a principal, leave state_storage and sections
\* as they were.
C37_Claim ==
    /\ [](\A t \in {1, 4} :
             ~check_user_permission(t, "owner").ok =>
                get_state(t) \notin {"create_section_level", "create_section_type",
                                     "create_section_division", "create_section_admin"})
    /\ [][\A t \in {1, 4} :
             (/\ ~check_user_permission(t, "owner").ok
              /\ \/ handle_create_section_button(t)
                 \/ handle_section_level_selection(t, 1)
                 \/ handle_confirm_create_section(t, ConstantDraws(CodeB)))
             => state_storage' = state_storage /\ sections' = sections]_vars

\* C38: in every reachable state the approved Memberships of a section are
\* at most its max_students, whatever the order of the registrations and of
\* the approvals (several registrations may be pending while a single
\* place is free).
C38_Claim ==
    \A s \in 1..Len(sections) : approved_count(s) <= sections[s].max_students

\* C39: no principal whose user_type is owner or admin holds a Membership,
\* also when the principal is created as an admin between the opening of
\* the join link and the submission of the name.
C39_Claim ==
    \A t \in DOMAIN users :
        users[t].user_type \in {"owner", "admin"} =>
           \A s \in 1..Len(sections) : RowsOf(t, s) = {}

\* C40: when two calls of register_student for the same student and section
\* have both passed the SELECT of the existing Membership before either has
\* inserted, at most one Membership of the pair results, and the call that
\* comes to its INSERT while the other holds the write lock or has
\* committed returns a failure with a message and inserts nothing.
C40_Theorem ==
    /\ [](\A t \in MembershipStudents, s \in 1..Len(sections) : Cardinality(RowsOf(t, s)) <= 1)
    /\ [][\A p, q \in Threads :
             (/\ p # q
              /\ calls[p].pc = "insert" /\ calls[p].action = "register"
              /\ calls[q].action = "register"
              /\ calls[q].student_telegram_id = calls[p].student_telegram_id
              /\ calls[q].section_id = calls[p].section_id
              /\ \/ calls[q].pc = "commit"
                 \/ calls[q].pc = "done" /\ calls[q].ok
              /\ register_student_insert(p))
             => (/\ calls'[p].pc = "done"
                 /\ ~calls'[p].ok
                 /\ calls'[p].msg = MSG_UNEXPECTED
                 /\ ~reply'.ok /\ reply'.msg = MSG_UNEXPECTED
                 /\ student_sections' = student_sections)]_vars

\* both threads have returned from a call for student 4 and section 1, one
\* with a success and one with the failure of its INSERT, and the pair has
\* one Membership; nobody else has registered
C40_Witness ==
    \E p, q \in Threads :
        /\ p # q
        /\ 5 \notin DOMAIN users
        /\ calls[p].pc = "done" /\ calls[p].action = "register" /\ calls[p].ok
        /\ calls[q].pc = "done" /\ calls[q].action = "register" /\ ~calls[q].ok
        /\ calls[p].student_telegram_id = 4 /\ calls[q].student_telegram_id = 4
        /\ calls[p].section_id = 1 /\ calls[q].section_id = 1
        /\ calls[q].msg = MSG_UNEXPECTED
        /\ Cardinality(RowsOf(4, 1)) = 1

(***************************************************************************)
(* Properties of the dispatch                                              *)
(***************************************************************************)
\* the recipients of the call: the students its query returned
Recipients == {dispatch.students[i] : i \in DOMAIN dispatch.students}

\* the rows the call has appended to assignment_notifications
Logged == (dispatch.logged_before + 1)..Len(assignment_notifications)

\* C3: a call of send_assignment_notifications that found recipients
\* returns counts with sent + failed + blocked = the number of recipients,
\* whatever the transport did for each of them (and while it sends, the
\* counts add up to the number of recipients served so far).
C3_Theorem ==
    (dispatch.pc \in {"sending", "returned"} /\ Recipients # {})
    => /\ dispatch.stats.sent + dispatch.stats.failed + dispatch.stats.blocked = dispatch.i - 1
       /\ Cardinality(Recipients) = Len(dispatch.students)
       /\ dispatch.pc = "returned" => dispatch.i - 1 = Cardinality(Recipients)

\* a call for two recipients has returned, with a send that failed and one that did not
C3_Witness ==
    /\ dispatch.pc = "returned"
    /\ Cardinality(Recipients) = 2
    /\ dispatch.stats.failed = 1
    /\ dispatch.stats.sent + dispatch.stats.blocked = 1

\* C4: when a call of send_assignment_notifications returns, whatever its
\* kind (new, edit, delete, reminder or another one) and whatever the
\* transport did, it has appended exactly one row to
\* assignment_notifications for each recipient, with the call's assignment
\* and kind.
C4_Claim ==
    dispatch.pc = "returned"
    => \A t \in Recipients :
          Cardinality({k \in Logged :
                          /\ assignment_notifications[k].student_id = users[t].user_id
                          /\ assignment_notifications[k].assignment_id = dispatch.assignment_id
                          /\ assignment_notifications[k].notification_type
                                = dispatch.notification_type}) = 1

\* C25: during a dispatch for section S a message goes only to principals
\* who, when the call resolved its recipients, had an approved and active
\* Membership in S and were not blocked: every resolved recipient is such
\* a principal -- nobody whose Membership in S is pending or rejected,
\* nobody who is blocked, nobody who has no Membership in S -- and every
\* assignment message is sent by a running call to one of its resolved
\* recipients.
C25_Theorem ==
    [][/\ \A a \in DispatchAssignments, k \in DispatchKinds, s \in {1, 2} :
            send_assignment_notifications(a, s, k) =>
               /\ outbox' = outbox
               /\ \A t \in TelegramIds :
                     (\E i \in DOMAIN dispatch'.students : dispatch'.students[i] = t)
                     => /\ t \in DOMAIN users
                        /\ users[t].is_blocked = 0
                        /\ HasStatus(t, s, "approved")
                        /\ ~HasStatus(t, s, "pending") /\ ~HasStatus(t, s, "rejected")
                        /\ \A r \in RowsOf(t, s) : student_sections[r].is_active = 1
       /\ \A t \in TelegramIds :
             outbox'["assignment"][t] # outbox["assignment"][t]
             => /\ dispatch.pc = "sending"
                /\ t \in Recipients
                /\ dispatch'.students = dispatch.students]_vars

\* a call for section 1 has returned after one message: 4 was approved when
\* it started; 5, rejected, got nothing
C25_Witness ==
    /\ dispatch.pc = "returned"
    /\ dispatch.section_id = 1
    /\ Recipients = {4}
    /\ outbox["assignment"][4] = 1
    /\ outbox["assignment"][5] = 0
    /\ HasStatus(5, 1, "rejected")

C27_Theorem ==
    (dispatch.pc = "sending")
       ~> (dispatch.pc = "returned" /\ dispatch.i = Len(dispatch.students) + 1)

\* a call for two recipients whose kind no NotificationRecord can hold has
\* returned counts for both, one of which the transport failed
C27_Witness ==
    /\ dispatch.pc = "returned"
    /\ dispatch.notification_type = "urgent"
    /\ Len(dispatch.students) = 2
    /\ dispatch.stats.failed = 1
    /\ dispatch.stats.sent + dispatch.stats.blocked = 1
    /\ Logged = {}

\* C28: within one call a pacing delay takes place between every two
\* consecutive send attempts, whatever the outcome (sent, failed or
\* blocked) of the earlier one: every turn but the first of a call starts
\* after the turn before it has slept.
C28_Claim ==
    [][\A o \in TransportOutcomes :
          (dispatch.i > 1 /\ send_to_student(o)) => dispatch.slept]_vars

\* C29: a call of send_assignment_notifications whose assignment does not
\* exist, or whose section has no approved, active member who is not
\* blocked, returns sent = failed = blocked = 0, sends no message and
\* appends no row to assignment_notifications.
C29_Theorem ==
    [][\A a \in DispatchAssignments, k \in DispatchKinds, s \in {1, 2} :
          (/\ \/ a \notin DOMAIN assignments
              \/ ~\E t \in DOMAIN users :
                    users[t].is_blocked = 0 /\ HasStatus(t, s, "approved")
           /\ send_assignment_notifications(a, s, k))
          => /\ dispatch'.pc = "returned"
             /\ dispatch'.stats = [sent |-> 0, failed |-> 0, blocked |-> 0]
             /\ dispatch'.students = <<>>
             /\ outbox' = outbox
             /\ assignment_notifications' = assignment_notifications]_vars

\* a call for an assignment that does not exist has returned zeros and
\* sent nothing, though the section has an approved student
C29_Witness ==
    /\ dispatch.pc = "returned"
    /\ dispatch.assignment_id \notin DOMAIN assignments
    /\ dispatch.section_id = 1
    /\ HasStatus(4, 1, "approved") /\ users[4].is_blocked = 0
    /\ dispatch.stats = [sent |-> 0, failed |-> 0, blocked |-> 0]
    /\ \A t \in TelegramIds : outbox["assignment"][t] = 0
    /\ assignment_notifications = <<>>

\* C30: for each recipient of a call, a send the transport refused because
\* the recipient blocked the bot is counted as blocked, any other failure
\* as failed and a send that succeeded as sent, one counter moving by one;
\* the row appended for the recipient, when one is appended, has the
\* status of the counter that moved.
C30_Theorem ==
    [][\A o \in TransportOutcomes :
          send_to_student(o) =>
             LET moved == CASE o = "delivered" -> "sent"
                            [] o = "blocked_by_user" -> "blocked"
                            [] o = "other_error" -> "failed"
             IN
             /\ \A c \in DELIVERY_STATUSES :
                   dispatch'.stats[c] = dispatch.stats[c] + (IF c = moved THEN 1 ELSE 0)
             /\ Len(assignment_notifications') \in
                   {Len(assignment_notifications), Len(assignment_notifications) + 1}
             /\ Len(assignment_notifications') = Len(assignment_notifications) + 1
                => LET row == assignment_notifications'[Len(assignment_notifications')] IN
                   /\ row.delivery_status = moved
                   /\ row.student_id = users[dispatch.students[dispatch.i]].user_id
                   /\ row.assignment_id = dispatch.assignment_id
             /\ dispatch.notification_type \in NOTIFICATION_TYPES
                => Len(assignment_notifications') = Len(assignment_notifications) + 1]_vars

\* a call has returned with one recipient counted as blocked and one as
\* failed, and the two rows it appended say so
C30_Witness ==
    /\ dispatch.pc = "returned"
    /\ dispatch.stats = [sent |-> 0, failed |-> 1, blocked |-> 1]
    /\ Cardinality(Logged) = 2
    /\ {assignment_notifications[k].delivery_status : k \in Logged} = {"blocked", "failed"}

\* C31: the call chooses the template of its message from the kind: new,
\* edit and delete have a template each (the one of delete says that the
\* assignment was cancelled), every other kind has the template of new;
\* the message built when the call starts is the one every recipient of
\* the call is sent.
C31_Theorem ==
    [][/\ \A k \in NOTIFICATION_TYPES \cup {"urgent"} :
            (send_assignment_notifications(1, 1, k) /\ dispatch'.pc = "sending")
            => /\ k \in {"new", "edit", "delete"} => dispatch'.message_text = k
               /\ k \notin {"new", "edit", "delete"} => dispatch'.message_text = "new"
       /\ \A o \in TransportOutcomes :
            send_to_student(o)
            => /\ dispatch'.message_text = dispatch.message_text
               /\ dispatch.message_text =
                     (IF dispatch.notification_type \in {"edit", "delete"}
                      THEN dispatch.notification_type ELSE "new")]_vars

\* a call of kind delete has sent its two recipients the cancellation
C31_Witness ==
    /\ dispatch.pc = "returned"
    /\ dispatch.notification_type = "delete"
    /\ dispatch.message_text = "delete"
    /\ Len(dispatch.students) = 2
    /\ \A t \in Recipients : outbox["assignment"][t] = 1

(***************************************************************************)
(* Properties of the race                                                  *)
(***************************************************************************)
\* C6: when an approve and a reject, or two approves, of the same pending
\* Membership, by principals entitled to decide, are handled at the same
\* time, exactly one of them succeeds and the other one reports 'already
\* processed'; the Membership has the status the successful one gave it.
C6_Claim ==
    (/\ \A p \in Threads : calls[p].pc = "done" /\ MayDecide(calls[p].caller, calls[p].section_id)
     /\ \E p \in Threads : calls[p].action = "approve")
    => \E w \in Threads :
          /\ calls[w].ok
          /\ HasStatus(calls[w].student_telegram_id, calls[w].section_id,
                       IF calls[w].action = "approve" THEN "approved" ELSE "rejected")
          /\ \A l \in Threads \ {w} : ~calls[l].ok /\ calls[l].msg = MSG_ALREADY_PROCESSED


====
